---- MODULE Spec2Model ----
(***************************************************************************)
(* State-machine model of the ramsql engine: the executor (statement       *)
(* handlers driving a live transaction), the relation/index layer and the  *)
(* transaction kernel with its change log.                                 *)
(*                                                                         *)
(* Values are strings; NULL is the distinguished value Null.  A row is a   *)
(* sequence of values aligned with the relation's attributes.  A hash      *)
(* index holds a set of <<key, row>> entries, key being the sequence of    *)
(* the row's values for the indexed attributes at the time it was filed.   *)
(***************************************************************************)
EXTENDS Integers, Sequences, FiniteSets, Bags, TLC

(***************************************************************************)
(* Bounds of the model.                                                    *)
(***************************************************************************)
\* rows categories may hold after an INSERT the model issues
MaxRows == 2
\* an INSERT on controls is issued only while it holds fewer rows than this
MaxChildRows == 1
\* statements executed inside one transaction
MaxStmts == 2

(***************************************************************************)
(* Generic helpers.                                                        *)
(***************************************************************************)
Null == "NULL"
NoErr == ""
DefaultSchema == "public"

Range(s) == {s[i] : i \in DOMAIN s}

RemoveAt(s, i) == [j \in 1..(Len(s) - 1) |-> IF j < i THEN s[j] ELSE s[j + 1]]

InsertAt(s, i, x) ==
    [j \in 1..(Len(s) + 1) |-> IF j < i THEN s[j] ELSE IF j = i THEN x ELSE s[j - 1]]

RECURSIVE Join(_, _)
Join(s, sep) ==
    IF Len(s) = 0 THEN ""
    ELSE IF Len(s) = 1 THEN s[1]
    ELSE s[1] \o sep \o Join(Tail(s), sep)

(***************************************************************************)
(* Attributes and foreign keys.                                            *)
(***************************************************************************)
\* agnostic.NewForeignKey followed by the With... builders
NewForeignKey(name, localColumns, refSchema, refRelation, refColumns) ==
    [name |-> name, localColumns |-> localColumns, refSchema |-> refSchema,
     refRelation |-> refRelation, refColumns |-> refColumns]

\* an attribute; fk is <<>> (nil) or <<foreign key>>, nextValue the value the
\* next auto-increment takes
NewAttribute(name, typeName) ==
    [name |-> name, typeName |-> typeName, unique |-> FALSE,
     autoIncrement |-> FALSE, nextValue |-> 1, fk |-> <<>>]

WithUnique(attr) == [attr EXCEPT !.unique = TRUE]

WithAutoIncrement(attr) == [attr EXCEPT !.autoIncrement = TRUE]

WithForeignKeyStruct(attr, fk) == [attr EXCEPT !.fk = <<fk>>]

\* column-level REFERENCES: one local column, at most one referenced column
WithForeignKey(attr, refSchema, refTable, refCol) ==
    [attr EXCEPT !.fk = <<NewForeignKey("", <<attr.name>>, refSchema, refTable,
                                        IF refCol = "" THEN <<>> ELSE <<refCol>>)>>]

fkSignature(fk) ==
    Join(<<fk.refSchema, fk.refRelation, Join(fk.localColumns, ","),
           Join(fk.refColumns, ",")>>, "|")

\* sort.Strings over the signatures the model's table declarations produce
SigOrder ==
    <<"|categories|category_name,category_catalog_id|name,catalog_id",
      "|p1|a|id", "|p2|a|id", "|p2|u|id", "|pair|u,a|k1,k2">>

\* the foreign key an attribute carries, its local columns defaulted
AttrFK(at) ==
    LET fk == at.fk[1]
    IN IF Len(fk.localColumns) = 0 THEN [fk EXCEPT !.localColumns = <<at.name>>]
       ELSE fk

\* one representative per signature (the first attribute carrying it), in
\* the order of the sorted signatures
uniqueRelationFKsOf(attributes) ==
    LET carrying == SelectSeq(attributes, LAMBDA at : Len(at.fk) > 0)
        seen == {fkSignature(AttrFK(carrying[i])) : i \in DOMAIN carrying}
        first(sig) == CHOOSE i \in DOMAIN carrying :
                          /\ fkSignature(AttrFK(carrying[i])) = sig
                          /\ \A j \in 1..(i - 1) : fkSignature(AttrFK(carrying[j])) # sig
        keys == SelectSeq(SigOrder, LAMBDA sig : sig \in seen)
    IN [k \in DOMAIN keys |-> AttrFK(carrying[first(keys[k])])]

(***************************************************************************)
(* Hash indexes.                                                           *)
(***************************************************************************)
\* prefix is the leading part of the name ("pk_", "unique_", "fk_", or ""
\* for an index named by CREATE INDEX): strings.HasPrefix reads it
NewHashIndex(prefix, name, attrsName, attrs) ==
    [name |-> prefix \o name, prefix |-> prefix, attrsName |-> attrsName,
     attrs |-> attrs, entries |-> EmptyBag]

\* the key a row is filed under
IndexKey(ix, row) == [i \in DOMAIN ix.attrs |-> row[ix.attrs[i]]]

\* the rows filed under a key
IndexGet(ix, key) == {e[2] : e \in {x \in BagToSet(ix.entries) : x[1] = key}}

IndexInsert(ix, row) ==
    [ix EXCEPT !.entries = @ (+) SetToBag({<<IndexKey(ix, row), row>>})]

IndexRemove(ix, row) ==
    [ix EXCEPT !.entries = @ (-) SetToBag({<<IndexKey(ix, row), row>>})]

IndexTruncate(ix) == [ix EXCEPT !.entries = EmptyBag]

(***************************************************************************)
(* Relations.                                                              *)
(***************************************************************************)
HasAttr(attributes, name) == \E i \in DOMAIN attributes : attributes[i].name = name

\* r.attrIndex[name]: the last attribute of that name; a missing name reads
\* as Go's zero index, the first attribute
AttrIndex(attributes, name) ==
    IF HasAttr(attributes, name)
    THEN CHOOSE i \in DOMAIN attributes :
             /\ attributes[i].name = name
             /\ \A j \in DOMAIN attributes : attributes[j].name = name => j <= i
    ELSE 1

hasIndexOn(r, attrs) ==
    \E i \in DOMAIN r.indexes : r.indexes[i].attrsName = attrs

ensureHashIndex(r, prefix, attrs) ==
    IF Len(attrs) = 0 THEN r
    ELSE IF hasIndexOn(r, attrs) THEN r
    ELSE IF \E i \in DOMAIN attrs : ~HasAttr(r.attributes, attrs[i]) THEN r
    ELSE LET idxs == [i \in DOMAIN attrs |-> AttrIndex(r.attributes, attrs[i])]
             iname == r.schema \o "_" \o r.name \o "_" \o Join(attrs, "_")
         IN [r EXCEPT !.indexes = Append(@, NewHashIndex(prefix, iname, attrs, idxs))]

\* Relation.createIndex of a hash index: the index is built over the named
\* attributes the relation has and appended to the relation's indexes
createIndex(r, name, attrs) ==
    LET found == SelectSeq(attrs, LAMBDA a : HasAttr(r.attributes, a))
        attrsIdx == [k \in DOMAIN found |->
                        CHOOSE i \in DOMAIN r.attributes :
                            /\ r.attributes[i].name = found[k]
                            /\ \A j \in DOMAIN r.attributes :
                                   r.attributes[j].name = found[k] => i <= j]
    IN [r EXCEPT !.indexes = Append(@, NewHashIndex("", name, attrs, attrsIdx))]

RECURSIVE ensureUniqueIndexes(_, _)
ensureUniqueIndexes(r, i) ==
    IF i > Len(r.attributes) THEN r
    ELSE ensureUniqueIndexes(
             IF r.attributes[i].unique
             THEN ensureHashIndex(r, "unique_", <<r.attributes[i].name>>)
             ELSE r, i + 1)

RECURSIVE ensureFKIndexes(_, _)
ensureFKIndexes(r, fks) ==
    IF Len(fks) = 0 THEN r
    ELSE ensureFKIndexes(ensureHashIndex(r, "fk_", Head(fks).localColumns), Tail(fks))

uniqueRelationFKs(r) == uniqueRelationFKsOf(r.attributes)

NewRelation(schema, name, attributes, pk) ==
    LET r0 == [name |-> name, schema |-> schema, attributes |-> attributes,
               pk |-> [i \in DOMAIN pk |-> AttrIndex(attributes, pk[i])],
               rows |-> <<>>, indexes |-> <<>>]
        r1 == IF Len(r0.pk) # 0 THEN ensureHashIndex(r0, "pk_", pk) ELSE r0
        r2 == ensureUniqueIndexes(r1, 1)
    IN ensureFKIndexes(r2, uniqueRelationFKs(r2))

\* the first index whose name starts with "pk", 0 when there is none
PkIndexPos(r) ==
    IF \E i \in DOMAIN r.indexes : r.indexes[i].prefix = "pk_"
    THEN CHOOSE i \in DOMAIN r.indexes :
             /\ r.indexes[i].prefix = "pk_"
             /\ \A j \in 1..(i - 1) : r.indexes[j].prefix # "pk_"
    ELSE 0

PkValues(r, tuple) == [i \in DOMAIN r.pk |-> tuple[r.pk[i]]]

\* [ok, err]: ok when no row is filed under the tuple's primary key
CheckPrimaryKey(r, tuple) ==
    IF Len(r.pk) = 0 THEN [ok |-> TRUE, err |-> NoErr]
    ELSE IF PkIndexPos(r) = 0
         THEN [ok |-> FALSE, err |-> "primary key index not found"]
    ELSE [ok |-> IndexGet(r.indexes[PkIndexPos(r)], PkValues(r, tuple)) = {},
          err |-> NoErr]

\* relation position and attribute of a column, err when it is not defined
RelationAttribute(r, name) ==
    IF HasAttr(r.attributes, name)
    THEN [index |-> AttrIndex(r.attributes, name), err |-> NoErr]
    ELSE [index |-> 0, err |-> "attribute not defined"]

\* Truncate that renews the row list and leaves the indexes as they are
RelationTruncateRowsOnly(r) == [relation |-> [r EXCEPT !.rows = <<>>], count |-> Len(r.rows)]

\* Truncate that reads the length after renewing the row list
RelationTruncateLateCount(r) ==
    [relation |-> [r EXCEPT !.indexes = [i \in DOMAIN r.indexes |-> IndexTruncate(r.indexes[i])],
                            !.rows = <<>>],
     count |-> 0]

\* Relation.Truncate: [relation, count]
RelationTruncate(r) ==
    [relation |-> [r EXCEPT !.indexes = [i \in DOMAIN r.indexes |-> IndexTruncate(r.indexes[i])],
                            !.rows = <<>>],
     count |-> Len(r.rows)]

(***************************************************************************)
(* Schemas and the engine.  A schema maps relation names to relations; the *)
(* engine maps schema names to schemas.                                    *)
(***************************************************************************)
EmptyMap == [x \in {} |-> x]

MapPut(m, k, v) == [x \in DOMAIN m \cup {k} |-> IF x = k THEN v ELSE m[x]]

MapDel(m, k) == [x \in DOMAIN m \ {k} |-> m[x]]

NewSchema(name) == [name |-> name, relations |-> EmptyMap]

SchemaAdd(s, name, r) == [s EXCEPT !.relations = MapPut(@, name, r)]

SchemaRemove(s, name) == [s EXCEPT !.relations = MapDel(@, name)]

NewEngine ==
    LET attrs == <<NewAttribute("table_schema", "varchar"),
                   NewAttribute("table_name", "varchar"),
                   NewAttribute("table_type", "varchar")>>
        info == SchemaAdd(NewSchema("information_schema"), "tables",
                          NewRelation("information_schema", "tables", attrs, <<>>))
    IN [schemas |-> MapPut(MapPut(EmptyMap, DefaultSchema, NewSchema(DefaultSchema)),
                           "information_schema", info),
        searchPath |-> <<DefaultSchema>>]

\* Engine.schema: the empty name is the default schema
SchemaName(name) == IF name = "" THEN DefaultSchema ELSE name

HasSchema(e, name) == SchemaName(name) \in DOMAIN e.schemas

HasRelation(e, schema, relation) ==
    /\ HasSchema(e, schema)
    /\ relation \in DOMAIN e.schemas[SchemaName(schema)].relations

GetRelation(e, schema, relation) == e.schemas[SchemaName(schema)].relations[relation]

PutRelation(e, schema, relation, r) ==
    [e EXCEPT !.schemas[SchemaName(schema)] = SchemaAdd(@, relation, r)]

\* Engine.createRelation: [err, engine]
EngineCreateRelation(e, schema, relation, attributes, pk) ==
    IF ~HasSchema(e, schema) THEN [err |-> "schema does not exist", engine |-> e]
    ELSE [err |-> NoErr,
          engine |-> PutRelation(e, schema, relation,
                                 NewRelation(schema, relation, attributes, pk))]

\* Engine.dropRelation: [err, engine]
EngineDropRelation(e, schema, relation) ==
    IF ~HasSchema(e, schema) THEN [err |-> "schema does not exist", engine |-> e]
    ELSE IF ~HasRelation(e, schema, relation)
         THEN [err |-> "relation does not exist", engine |-> e]
    ELSE [err |-> NoErr,
          engine |-> [e EXCEPT !.schemas[SchemaName(schema)] = SchemaRemove(@, relation)]]

\* Engine.createSchema: [err, engine]
EngineCreateSchema(e, name) ==
    IF name \in DOMAIN e.schemas THEN [err |-> "schema already exist", engine |-> e]
    ELSE [err |-> NoErr, engine |-> [e EXCEPT !.schemas = MapPut(@, name, NewSchema(name))]]

\* Engine.dropSchema: [err, engine]
EngineDropSchema(e, name) ==
    IF name \notin DOMAIN e.schemas THEN [err |-> "schema does not exist", engine |-> e]
    ELSE [err |-> NoErr, engine |-> [e EXCEPT !.schemas = MapDel(@, name)]]

(***************************************************************************)
(* Predicates: a conjunction of column = value comparisons (the empty      *)
(* conjunction is the true predicate).  NULL never compares equal.         *)
(***************************************************************************)
NewTruePredicate == [cols |-> <<>>, vals |-> <<>>]

NewEqPredicates(cols, vals) == [cols |-> cols, vals |-> vals]

Project(r, cols, row) == [i \in DOMAIN cols |-> row[AttrIndex(r.attributes, cols[i])]]

\* Predicate trees: the plan nodes Tx.getPredicates builds of a WHERE clause.
\* Operands are value functors, a constant or an attribute of a relation.
NewConstValueFunctor(v) == [kind |-> "const", relation |-> "", name |-> "", value |-> v]

NewAttributeValueFunctor(relation, name) ==
    [kind |-> "attribute", relation |-> relation, name |-> name, value |-> ""]

NewComparisonPredicate(left, ptype, right) ==
    [kind |-> "comparison", ptype |-> ptype, left |-> left, right |-> right]

\* the Eq comparison
NewEqPredicate(left, right) == NewComparisonPredicate(left, "Eq", right)

NewAndPredicate(lp, rp) == [kind |-> "and", sub |-> <<lp, rp>>]

NewOrPredicate(lp, rp) == [kind |-> "or", sub |-> <<lp, rp>>]

NewNotPredicate(p) == [kind |-> "not", sub |-> <<p>>]

\* the value of a functor on a row of r
FunctorValue(f, r, row) ==
    IF f.kind = "const" THEN f.value ELSE row[AttrIndex(r.attributes, f.name)]

\* a comparison on two values: NULL is unequal to every value, itself
\* included
Compare(ptype, l, v) ==
    IF ptype = "Eq" THEN l # Null /\ v # Null /\ l = v
    ELSE ~(l # Null /\ v # Null /\ l = v)

\* Predicate.Eval on a row of r
RECURSIVE PredicateEval(_, _, _)
PredicateEval(p, r, row) ==
    CASE p.kind = "comparison" ->
            Compare(p.ptype, FunctorValue(p.left, r, row), FunctorValue(p.right, r, row))
      [] p.kind = "and" -> PredicateEval(p.sub[1], r, row) /\ PredicateEval(p.sub[2], r, row)
      [] p.kind = "or" -> PredicateEval(p.sub[1], r, row) \/ PredicateEval(p.sub[2], r, row)
      [] p.kind = "not" -> ~PredicateEval(p.sub[1], r, row)

\* a row of r satisfies p, a predicate tree or a conjunction of equalities
Matches(r, p, row) ==
    IF "kind" \in DOMAIN p THEN PredicateEval(p, r, row)
    ELSE \A i \in DOMAIN p.cols :
             /\ HasAttr(r.attributes, p.cols[i])
             /\ p.vals[i] # Null
             /\ row[AttrIndex(r.attributes, p.cols[i])] = p.vals[i]

\* positions of the rows a scan with predicate p yields
MatchingPos(r, p) == {i \in DOMAIN r.rows : Matches(r, p, r.rows[i])}

(***************************************************************************)
(* Foreign-key checks of the kernel.                                       *)
(***************************************************************************)
IndexPosOn(r, cols) == CHOOSE i \in DOMAIN r.indexes : r.indexes[i].attrsName = cols

\* the rows of r whose values on cols are key: through the hash index on
\* exactly these columns when r owns one, by scanning otherwise
Lookup(r, cols, key) ==
    IF hasIndexOn(r, cols) THEN IndexGet(r.indexes[IndexPosOn(r, cols)], key)
    ELSE {r.rows[i] : i \in {j \in DOMAIN r.rows : Project(r, cols, r.rows[j]) = key}}

NoNull(vals) == \A i \in DOMAIN vals : vals[i] # Null

PkNames(r) == [i \in DOMAIN r.pk |-> r.attributes[r.pk[i]].name]

\* the schema a foreign key of a relation of schema childSchema points into
FKRefSchema(childSchema, fk) ==
    SchemaName(IF fk.refSchema = "" THEN childSchema ELSE fk.refSchema)

\* referenced columns, the parent's primary key when none is given
FKRefColumns(parent, fk) ==
    IF Len(fk.refColumns) = 0 THEN PkNames(parent) ELSE fk.refColumns

\* the foreign key fk of child relation r has no parent row for tuple
FKMissing(e, schema, r, fk, tuple) ==
    LET vals == Project(r, fk.localColumns, tuple)
        ps == FKRefSchema(schema, fk)
    IN /\ NoNull(vals)
       /\ \/ ~HasRelation(e, ps, fk.refRelation)
          \/ LET parent == GetRelation(e, ps, fk.refRelation)
             IN Lookup(parent, FKRefColumns(parent, fk), vals) = {}

\* the foreign keys of the relation at (cs, cn) that reference (schema, relation)
FKsReferencing(e, cs, cn, schema, relation) ==
    {fk \in Range(uniqueRelationFKs(GetRelation(e, cs, cn))) :
        /\ fk.refRelation = relation
        /\ FKRefSchema(cs, fk) = SchemaName(schema)}

\* some child row references row of the relation at (schema, relation)
\* through a foreign key whose referenced columns meet cols
ReferencedOn(e, schema, relation, row, cols) ==
    LET parent == GetRelation(e, schema, relation)
    IN \E cs \in DOMAIN e.schemas : \E cn \in DOMAIN e.schemas[cs].relations :
         \E fk \in FKsReferencing(e, cs, cn, schema, relation) :
            LET key == Project(parent, FKRefColumns(parent, fk), row)
            IN /\ Range(FKRefColumns(parent, fk)) \cap cols # {}
               /\ NoNull(key)
               /\ Lookup(GetRelation(e, cs, cn), fk.localColumns, key) # {}

AttrNames(r) == {r.attributes[i].name : i \in DOMAIN r.attributes}

Referenced(e, schema, relation, row) ==
    ReferencedOn(e, schema, relation, row, AttrNames(GetRelation(e, schema, relation)))

\* some relation other than (schema, relation) declares a foreign key on it
IsReferencedRelation(e, schema, relation) ==
    \E cs \in DOMAIN e.schemas : \E cn \in DOMAIN e.schemas[cs].relations :
        /\ <<cs, cn>> # <<SchemaName(schema), relation>>
        /\ FKsReferencing(e, cs, cn, schema, relation) # {}

(***************************************************************************)
(* The transaction kernel.  Every operation takes the engine and returns   *)
(* [err, engine, changes, rows]: the error (NoErr on success), the engine  *)
(* after it, the undo records it appends to the change log and the rows    *)
(* it produced.  A failing operation leaves the engine as it was.          *)
(***************************************************************************)
Change(kind, schema, relation, pos, row, old, saved) ==
    [kind |-> kind, schema |-> schema, relation |-> relation, pos |-> pos,
     row |-> row, old |-> old, saved |-> saved]

Failed(e, err) == [err |-> err, engine |-> e, changes |-> <<>>, rows |-> <<>>]

\* the relation with row appended and filed in every index
RelationAppend(r, row) ==
    [r EXCEPT !.rows = Append(@, row),
              !.indexes = [i \in DOMAIN r.indexes |-> IndexInsert(r.indexes[i], row)]]

\* the relation with the row at pos spliced out and removed from every index
RelationRemoveAt(r, pos) ==
    [r EXCEPT !.rows = RemoveAt(@, pos),
              !.indexes = [i \in DOMAIN r.indexes |-> IndexRemove(r.indexes[i], r.rows[pos])]]

\* the relation with row spliced in at pos and filed in every index
RelationInsertAt(r, pos, row) ==
    [r EXCEPT !.rows = InsertAt(@, pos, row),
              !.indexes = [i \in DOMAIN r.indexes |-> IndexInsert(r.indexes[i], row)]]

\* the relation with the row at pos replaced in place and re-filed
RelationReplaceAt(r, pos, row) ==
    [r EXCEPT !.rows[pos] = row,
              !.indexes = [i \in DOMAIN r.indexes |->
                              IndexInsert(IndexRemove(r.indexes[i], r.rows[pos]), row)]]

\* values ordered by the relation's attributes, NULL where unspecified
OrderValues(r, values) ==
    [i \in DOMAIN r.attributes |->
        IF r.attributes[i].name \in DOMAIN values THEN values[r.attributes[i].name]
        ELSE Null]

\* strconv.Itoa of a small number: the decimal text of a counter value
Itoa(n) == IF n = 0 THEN "0" ELSE <<"1", "2", "3", "4", "5", "6", "7", "8", "9">>[n]

\* the attributes an insert of these values takes its value from the counter for
AutoIncremented(r, values) ==
    {i \in DOMAIN r.attributes :
        r.attributes[i].autoIncrement /\ r.attributes[i].name \notin DOMAIN values}

\* the tuple whose unspecified auto-increment columns repeat the value 1
InsertTupleConstant(r, values) ==
    [i \in DOMAIN r.attributes |->
        IF i \in AutoIncremented(r, values) THEN Itoa(1) ELSE OrderValues(r, values)[i]]

\* the tuple of an insert: an unspecified auto-increment column takes the
\* counter's value
InsertTuple(r, values) ==
    [i \in DOMAIN r.attributes |->
        IF i \in AutoIncremented(r, values) THEN Itoa(r.attributes[i].nextValue)
        ELSE OrderValues(r, values)[i]]

\* the relation whose counters stay where they are
AdvanceCountersNever(r, values) == r

\* the relation with the counters the insert drew from advanced
AdvanceCounters(r, values) ==
    [r EXCEPT !.attributes =
        [i \in DOMAIN r.attributes |->
            IF i \in AutoIncremented(r, values)
            THEN [r.attributes[i] EXCEPT !.nextValue = @ + 1]
            ELSE r.attributes[i]]]

\* some UNIQUE column of r already holds the tuple's value
UniqueConflict(r, tuple) ==
    \E i \in DOMAIN r.attributes :
        /\ r.attributes[i].unique
        /\ Lookup(r, <<r.attributes[i].name>>, <<tuple[i]>>) # {}

TransactionInsert(e, schema, relation, values) ==
    IF ~HasSchema(e, schema) THEN Failed(e, "schema does not exist")
    ELSE IF ~HasRelation(e, schema, relation) THEN Failed(e, "relation does not exist")
    ELSE LET r == GetRelation(e, schema, relation)
             tuple == InsertTuple(r, values)
             fks == uniqueRelationFKs(r)
         IN IF \E c \in DOMAIN values : ~HasAttr(r.attributes, c)
            THEN Failed(e, "attribute not defined")
            ELSE IF \E i \in DOMAIN r.pk : tuple[r.pk[i]] = Null
            THEN Failed(e, "primary key cannot be null")
            ELSE IF CheckPrimaryKey(r, tuple).err # NoErr
            THEN Failed(e, CheckPrimaryKey(r, tuple).err)
            ELSE IF ~CheckPrimaryKey(r, tuple).ok \/ UniqueConflict(r, tuple)
            THEN Failed(e, "unique constraint violation")
            ELSE IF \E k \in DOMAIN fks : FKMissing(e, schema, r, fks[k], tuple)
            THEN Failed(e, "foreign key violation")
            ELSE [err |-> NoErr,
                  engine |-> PutRelation(e, schema, relation,
                                         RelationAppend(AdvanceCounters(r, values), tuple)),
                  changes |-> <<Change("insert", schema, relation, Len(r.rows) + 1,
                                       tuple, <<>>, <<>>)>>,
                  rows |-> <<tuple>>]

\* the row with the SET assignments applied
ApplySet(r, row, values) ==
    [i \in DOMAIN row |->
        IF r.attributes[i].name \in DOMAIN values THEN values[r.attributes[i].name]
        ELSE row[i]]

\* the error updating the row at pos to the SET values raises, NoErr if none
UpdateRowErr(e, schema, relation, values, pos) ==
    LET r == GetRelation(e, schema, relation)
        fks == uniqueRelationFKs(r)
        new == ApplySet(r, r.rows[pos], values)
    IN IF \E k \in DOMAIN fks :
              /\ Range(fks[k].localColumns) \cap DOMAIN values # {}
              /\ FKMissing(e, schema, r, fks[k], new)
       THEN "foreign key violation"
       ELSE IF ReferencedOn(e, schema, relation, r.rows[pos], DOMAIN values)
       THEN "foreign key restrict"
       ELSE NoErr

RECURSIVE UpdateRows(_, _, _, _)
UpdateRows(r, values, todo, schema) ==
    IF todo = {} THEN [relation |-> r, changes |-> <<>>, rows |-> <<>>]
    ELSE LET pos == CHOOSE i \in todo : \A j \in todo : i <= j
             new == ApplySet(r, r.rows[pos], values)
             rest == UpdateRows(RelationReplaceAt(r, pos, new), values, todo \ {pos}, schema)
         IN [relation |-> rest.relation,
             changes |-> <<Change("update", schema, r.name, pos, new, r.rows[pos], <<>>)>>
                         \o rest.changes,
             rows |-> <<new>> \o rest.rows]

\* the kernel's result once the rows of a relation have been rewritten
Stored(e, schema, relation, res) ==
    [err |-> NoErr, engine |-> PutRelation(e, schema, relation, res.relation),
     changes |-> res.changes, rows |-> res.rows]

\* the update of the rows at todo, errs[i] being the error row i raises:
\* the first failing row's error, or every row updated
UpdateChecked(e, schema, relation, values, todo, errs) ==
    IF \E i \in todo : errs[i] # NoErr
    THEN Failed(e, errs[CHOOSE i \in todo :
                           /\ errs[i] # NoErr
                           /\ \A j \in todo : errs[j] # NoErr => i <= j])
    ELSE Stored(e, schema, relation,
                UpdateRows(GetRelation(e, schema, relation), values, todo, schema))

TransactionUpdate(e, schema, relation, values, p) ==
    IF ~HasSchema(e, schema) THEN Failed(e, "schema does not exist")
    ELSE IF ~HasRelation(e, schema, relation) THEN Failed(e, "relation does not exist")
    ELSE LET r == GetRelation(e, schema, relation)
         IN IF \E c \in DOMAIN values : ~HasAttr(r.attributes, c)
            THEN Failed(e, "attribute not defined")
            ELSE UpdateChecked(e, schema, relation, values, MatchingPos(r, p),
                               [i \in DOMAIN r.rows |->
                                   UpdateRowErr(e, schema, relation, values, i)])

\* rows are spliced out from the last matching one to the first
RECURSIVE DeleteRows(_, _, _)
DeleteRows(r, todo, schema) ==
    IF todo = {} THEN [relation |-> r, changes |-> <<>>, rows |-> <<>>]
    ELSE LET pos == CHOOSE i \in todo : \A j \in todo : i >= j
             rest == DeleteRows(RelationRemoveAt(r, pos), todo \ {pos}, schema)
         IN [relation |-> rest.relation,
             changes |-> <<Change("delete", schema, r.name, pos, r.rows[pos], <<>>, <<>>)>>
                         \o rest.changes,
             rows |-> rest.rows \o <<r.rows[pos]>>]

TransactionDelete(e, schema, relation, p) ==
    IF ~HasSchema(e, schema) THEN Failed(e, "schema does not exist")
    ELSE IF ~HasRelation(e, schema, relation) THEN Failed(e, "relation does not exist")
    ELSE LET r == GetRelation(e, schema, relation)
             todo == MatchingPos(r, p)
         IN IF \E i \in todo : Referenced(e, schema, relation, r.rows[i])
            THEN Failed(e, "foreign key restrict")
            ELSE Stored(e, schema, relation, DeleteRows(r, todo, schema))

\* rows holds the rows removed, count what Relation.Truncate returned
TransactionTruncate(e, schema, relation) ==
    IF ~HasSchema(e, schema) THEN Failed(e, "schema does not exist")
    ELSE IF ~HasRelation(e, schema, relation) THEN Failed(e, "relation does not exist")
    ELSE LET r == GetRelation(e, schema, relation)
             res == RelationTruncate(r)
         IN [err |-> NoErr,
             engine |-> PutRelation(e, schema, relation, res.relation),
             changes |-> <<Change("truncate", schema, relation, res.count, <<>>, <<>>,
                                  r.rows)>>,
             rows |-> r.rows,
             count |-> res.count]

CheckRelation(e, schema, relation) == HasRelation(e, schema, relation)

CheckSchema(e, schema) == schema \in DOMAIN e.schemas

\* the kernel's result of an engine operation res, logged as change
Logged(res, e, change) ==
    IF res.err # NoErr THEN Failed(e, res.err)
    ELSE [err |-> NoErr, engine |-> res.engine, changes |-> <<change>>, rows |-> <<>>]

TransactionCreateRelation(e, schema, relation, attributes, pk) ==
    Logged(EngineCreateRelation(e, schema, relation, attributes, pk), e,
           Change("createRelation", schema, relation, 0, <<>>, <<>>,
                  IF HasRelation(e, schema, relation)
                  THEN <<GetRelation(e, schema, relation)>> ELSE <<>>))

TransactionDropRelation(e, schema, relation) ==
    IF HasRelation(e, schema, relation) /\ IsReferencedRelation(e, schema, relation)
    THEN Failed(e, "relation is referenced by a foreign key")
    ELSE Logged(EngineDropRelation(e, schema, relation), e,
                Change("dropRelation", schema, relation, 0, <<>>, <<>>,
                       <<GetRelation(e, schema, relation)>>))

TransactionCreateSchema(e, name) ==
    Logged(EngineCreateSchema(e, name), e,
           Change("createSchema", name, "", 0, <<>>, <<>>, <<>>))

TransactionDropSchema(e, name) ==
    IF name \in DOMAIN e.schemas /\ DOMAIN e.schemas[name].relations # {}
    THEN Failed(e, "schema is not empty")
    ELSE Logged(EngineDropSchema(e, name), e,
                Change("dropSchema", name, "", 0, <<>>, <<>>, <<e.schemas[name]>>))

\* Transaction.CreateIndex: the relation is looked up and given the index;
\* the change is logged with the relation as it was
TransactionCreateIndex(e, schema, relation, index, attrs) ==
    IF ~HasSchema(e, schema) THEN Failed(e, "schema does not exist")
    ELSE IF ~HasRelation(e, schema, relation) THEN Failed(e, "relation does not exist")
    ELSE [err |-> NoErr,
          engine |-> PutRelation(e, schema, relation,
                                 createIndex(GetRelation(e, schema, relation), index, attrs)),
          changes |-> <<Change("createIndex", schema, relation, 0, <<>>, <<>>,
                               <<GetRelation(e, schema, relation)>>)>>,
          rows |-> <<>>]

\* the engine with the rows of a truncated relation restored and re-filed
RECURSIVE RestoreRows(_, _)
RestoreRows(r, rows) ==
    IF Len(rows) = 0 THEN r ELSE RestoreRows(RelationAppend(r, Head(rows)), Tail(rows))

\* the inverse of one change
Undo(e, c) ==
    CASE c.kind = "insert" ->
           PutRelation(e, c.schema, c.relation,
                       RelationRemoveAt(GetRelation(e, c.schema, c.relation), c.pos))
      [] c.kind = "delete" ->
           PutRelation(e, c.schema, c.relation,
                       RelationInsertAt(GetRelation(e, c.schema, c.relation), c.pos, c.row))
      [] c.kind = "update" ->
           PutRelation(e, c.schema, c.relation,
                       RelationReplaceAt(GetRelation(e, c.schema, c.relation), c.pos, c.old))
      [] c.kind = "truncate" ->
           PutRelation(e, c.schema, c.relation,
                       RestoreRows(GetRelation(e, c.schema, c.relation), c.saved))
      [] c.kind = "createRelation" ->
           IF Len(c.saved) = 0
           THEN [e EXCEPT !.schemas[SchemaName(c.schema)] = SchemaRemove(@, c.relation)]
           ELSE PutRelation(e, c.schema, c.relation, c.saved[1])
      [] c.kind = "dropRelation" -> PutRelation(e, c.schema, c.relation, c.saved[1])
      [] c.kind = "createSchema" -> [e EXCEPT !.schemas = MapDel(@, c.schema)]
      [] c.kind = "dropSchema" -> [e EXCEPT !.schemas = MapPut(@, c.schema, c.saved[1])]
      [] c.kind = "createIndex" ->
           PutRelation(e, c.schema, c.relation,
                       [GetRelation(e, c.schema, c.relation)
                           EXCEPT !.indexes = SubSeq(@, 1, Len(c.saved[1].indexes))])

\* the change log undone from its last record to its first
RECURSIVE TransactionRollback(_, _)
TransactionRollback(e, changes) ==
    IF Len(changes) = 0 THEN e
    ELSE TransactionRollback(Undo(e, changes[Len(changes)]), SubSeq(changes, 1, Len(changes) - 1))

(***************************************************************************)
(* The executor.  A statement is the record the parser hands over:         *)
(*   kind      the statement                                               *)
(*   schema    the schema qualifier, "" when the name is unqualified       *)
(*   relation  the table (or, for schema statements, the schema) named     *)
(*   cols      INSERT column list / SET column list                        *)
(*   lists     INSERT value lists / the SET values as one list             *)
(*   where     the WHERE conjunction; hasWhere tells whether one is given  *)
(*   flag      IF EXISTS / IF NOT EXISTS                                   *)
(*   table     <<>> or <<declaration>> of CREATE TABLE                     *)
(*   args      the bound arguments                                         *)
(* A value token is a literal, a parameter ("?", "$1", ...) or DEFAULT.    *)
(* Every handler returns [err, engine, changes, affected].                 *)
(***************************************************************************)
Statement(kind, schema, relation, cols, lists, where, hasWhere, flag, table, args) ==
    [kind |-> kind, schema |-> schema, relation |-> relation, cols |-> cols,
     lists |-> lists, where |-> where, hasWhere |-> hasWhere, flag |-> flag,
     table |-> table, args |-> args]

Result(err, e, changes, affected) ==
    [err |-> err, engine |-> e, changes |-> changes, affected |-> affected]

\* the tail of an executor: the kernel's error as it is, else the kernel's
\* engine and undo records with the number of rows the kernel returned
RowsResult(r, e) ==
    IF r.err # NoErr THEN Result(r.err, e, <<>>, 0)
    ELSE Result(NoErr, r.engine, r.changes, Len(r.rows))

\* the same tail with the count given
FixedResult(r, e, affected) ==
    IF r.err # NoErr THEN Result(r.err, e, <<>>, 0)
    ELSE Result(NoErr, r.engine, r.changes, affected)

IsArgToken(tok) == tok \in {"?", "$1", "$2", "$3"}

\* a named parameter :n, its lexeme the name
IsNamedArgToken(tok) == tok \in {":n", ":m"}

NamedArgLexeme(tok) == CASE tok = ":n" -> "n" [] tok = ":m" -> "m"

\* driver.NamedValue
NamedValue(name, value) == [name |-> name, value |-> value]

\* a statement whose arguments are given with sql.Named: names[i] is the
\* name of args[i]
WithNames(stmt, names) ==
    [x \in DOMAIN stmt \cup {"names"} |-> IF x = "names" THEN names ELSE stmt[x]]

\* the arguments of a call as the driver hands them over; the name of a
\* plain argument is empty
NamedValues(stmt) ==
    [i \in DOMAIN stmt.args |->
        NamedValue(IF "names" \in DOMAIN stmt THEN stmt.names[i] ELSE "", stmt.args[i])]

\* the value of the last argument of that name, nil when there is none
LastNamed(args, name) ==
    LET named == {k \in DOMAIN args : args[k].name = name}
    IN IF named = {} THEN Null
       ELSE args[CHOOSE k \in named : \A j \in named : j <= k].value

\* the value of the first argument of that name
FirstNamed(args, name) ==
    args[CHOOSE k \in DOMAIN args :
             /\ args[k].name = name
             /\ \A j \in DOMAIN args : args[j].name = name => k <= j].value

IsDefaultToken(tok) == tok \in {"default", "DEFAULT"}

\* strconv.ParseInt of a positional parameter's lexeme
ArgNumber(tok) == CASE tok = "$1" -> 1 [] tok = "$2" -> 2 [] tok = "$3" -> 3

\* agnostic.ToInstance of a text literal: the string itself
ToInstance(lexeme) == lexeme

\* getValues from item i on: [err, values]
RECURSIVE getValuesFrom(_, _, _, _, _, _)
getValuesFrom(specifiedAttrs, list, args, i, odbcIdx, values) ==
    IF i > Len(list) THEN [err |-> NoErr, values |-> values]
    ELSE IF IsDefaultToken(list[i])
    THEN getValuesFrom(specifiedAttrs, list, args, i + 1, odbcIdx, values)
    ELSE IF IsArgToken(list[i])
    THEN LET idx == IF list[i] = "?" THEN odbcIdx ELSE ArgNumber(list[i])
             next == IF list[i] = "?" THEN odbcIdx + 1 ELSE odbcIdx
         IN IF Len(args) <= idx - 1
            THEN [err |-> "reference to argument not provided", values |-> values]
            ELSE getValuesFrom(specifiedAttrs, list, args, i + 1, next,
                               MapPut(values, specifiedAttrs[i], args[idx].value))
    ELSE IF IsNamedArgToken(list[i])
    THEN getValuesFrom(specifiedAttrs, list, args, i + 1, odbcIdx,
                       MapPut(values, specifiedAttrs[i],
                              LastNamed(args, NamedArgLexeme(list[i]))))
    ELSE getValuesFrom(specifiedAttrs, list, args, i + 1, odbcIdx,
                       MapPut(values, specifiedAttrs[i], ToInstance(list[i])))

\* the ordinal counter starts at 1 for every value list
getValues(specifiedAttrs, list, args) ==
    getValuesFrom(specifiedAttrs, list, args, 1, 1, EmptyMap)

\* getSet of one SET assignment col = tok: [err, values]; the ordinal
\* counter starts at 1 for every assignment
getSet(values, col, tok, args) ==
    IF IsArgToken(tok)
    THEN LET idx == IF tok = "?" THEN 1 ELSE ArgNumber(tok)
         IN IF Len(args) <= idx - 1
            THEN [err |-> "reference to argument not provided", values |-> values]
            ELSE [err |-> NoErr, values |-> MapPut(values, col, args[idx].value)]
    ELSE IF IsNamedArgToken(tok)
    THEN [err |-> NoErr, values |-> MapPut(values, col, ToInstance(NamedArgLexeme(tok)))]
    ELSE [err |-> NoErr, values |-> MapPut(values, col, ToInstance(tok))]

RECURSIVE getSets(_, _, _, _, _)
getSets(values, cols, toks, args, i) ==
    IF i > Len(cols) THEN [err |-> NoErr, values |-> values]
    ELSE LET one == getSet(values, cols[i], toks[i], args)
         IN IF one.err # NoErr THEN one
            ELSE getSets(one.values, cols, toks, args, i + 1)

\* getPredicates of a conjunction of comparisons with literals: [err, predicate]
getPredicates(e, schema, relation, where) ==
    IF ~HasRelation(e, schema, relation)
    THEN [err |-> "relation does not exist", predicate |-> NewTruePredicate]
    ELSE IF \E i \in DOMAIN where.cols :
                RelationAttribute(GetRelation(e, schema, relation), where.cols[i]).err # NoErr
    THEN [err |-> "attribute not defined", predicate |-> NewTruePredicate]
    ELSE [err |-> NoErr, predicate |-> NewEqPredicates(where.cols, where.vals)]

\* an INSERT with the clause ON CONFLICT (cols) DO NOTHING | DO UPDATE SET
\* ...: do is "nothing" or "update", sets the assignments [col, value], a
\* value being the attribute the parser makes of it, [lexeme, table]
\* (excluded.v has the lexeme "v" and the table "excluded", a plain value
\* its lexeme and the table "")
OnConflict(stmt, cols, do, sets) ==
    [x \in DOMAIN stmt \cup {"conflict"} |->
        IF x = "conflict" THEN [cols |-> cols, do |-> do, sets |-> sets] ELSE stmt[x]]

\* the statement has an ON child
HasOnConflict(stmt) == "conflict" \in DOMAIN stmt

\* Transaction.CheckPrimaryKeyConflict: [err, conflict], conflict when a row
\* is filed under the primary key of the proposed values
TransactionCheckPrimaryKeyConflict(e, schema, relation, values) ==
    IF ~HasSchema(e, schema) THEN [err |-> "schema does not exist", conflict |-> FALSE]
    ELSE IF ~HasRelation(e, schema, relation)
    THEN [err |-> "relation does not exist", conflict |-> FALSE]
    ELSE LET r == GetRelation(e, schema, relation)
             chk == CheckPrimaryKey(r, OrderValues(r, values))
         IN [err |-> chk.err, conflict |-> chk.err = NoErr /\ ~chk.ok]

\* buildConflictPredicate: equality on every conflict column that has a
\* value in the INSERT, <<>> (nil) when none has
buildConflictPredicate(conflictCols, values) ==
    LET cols == SelectSeq(conflictCols, LAMBDA col : col \in DOMAIN values)
    IN IF Len(cols) = 0 THEN <<>>
       ELSE <<NewEqPredicates(cols, [i \in DOMAIN cols |-> values[cols[i]]])>>

\* extractUpdateValues from assignment i on: excluded.col takes the value
\* proposed for col when there is one, a plain value is converted
RECURSIVE extractUpdateValuesFrom(_, _, _, _)
extractUpdateValuesFrom(sets, insertValues, i, updateValues) ==
    IF i > Len(sets) THEN updateValues
    ELSE LET colName == sets[i].col
             value == sets[i].value
         IN extractUpdateValuesFrom(sets, insertValues, i + 1,
                IF value.table # ""
                THEN IF value.table = "excluded" /\ value.lexeme \in DOMAIN insertValues
                     THEN MapPut(updateValues, colName, insertValues[value.lexeme])
                     ELSE updateValues
                ELSE MapPut(updateValues, colName, ToInstance(value.lexeme)))

extractUpdateValues(sets, insertValues) ==
    extractUpdateValuesFrom(sets, insertValues, 1, EmptyMap)

\* the tail of handleOnConflict: the first updated tuple
conflictUpdated(upd, e) ==
    IF upd.err # NoErr THEN Failed(e, upd.err)
    ELSE IF Len(upd.rows) > 0 THEN [upd EXCEPT !.rows = <<upd.rows[1]>>]
    ELSE Failed(e, "internal error: conflict detected but no matching rows found for update")

\* handleOnConflict that updates the conflicting row under DO NOTHING too
handleOnConflictAlwaysUpdate(e, schema, relation, values, conflict) ==
    LET chk == TransactionCheckPrimaryKeyConflict(e, schema, relation, values)
        predicate == buildConflictPredicate(conflict.cols, values)
    IN IF chk.err # NoErr THEN Failed(e, chk.err)
       ELSE IF ~chk.conflict THEN TransactionInsert(e, schema, relation, values)
       ELSE IF Len(predicate) = 0
       THEN Failed(e, "conflict target columns must have values in the INSERT statement")
       ELSE conflictUpdated(
                TransactionUpdate(e, schema, relation, values, predicate[1]), e)

\* handleOnConflict that inserts whether or not the key exists
handleOnConflictNoCheck(e, schema, relation, values, conflict) ==
    TransactionInsert(e, schema, relation, values)

\* handleOnConflict: the kernel's result of the insert or of the update, with
\* no row (the nil tuple) when a conflicting row is skipped
handleOnConflict(e, schema, relation, values, conflict) ==
    LET chk == TransactionCheckPrimaryKeyConflict(e, schema, relation, values)
        predicate == buildConflictPredicate(conflict.cols, values)
    IN IF chk.err # NoErr THEN Failed(e, chk.err)
       ELSE IF ~chk.conflict THEN TransactionInsert(e, schema, relation, values)
       ELSE IF conflict.do = "nothing"
       THEN [err |-> NoErr, engine |-> e, changes |-> <<>>, rows |-> <<>>]
       ELSE IF Len(predicate) = 0
       THEN Failed(e, "conflict target columns must have values in the INSERT statement")
       ELSE conflictUpdated(
                TransactionUpdate(e, schema, relation,
                                  extractUpdateValues(conflict.sets, values), predicate[1]),
                e)

\* the value lists from list k on, one kernel insert (or conflict handling)
\* per list; an error returns at once
RECURSIVE insertValueLists(_, _, _, _, _), insertedList(_, _, _, _, _, _)
insertValueLists(e, stmt, k, changes, n) ==
    IF k > Len(stmt.lists) THEN Result(NoErr, e, changes, n)
    ELSE LET gv == getValues(stmt.cols, stmt.lists[k], NamedValues(stmt))
         IN IF gv.err # NoErr THEN Result(gv.err, e, changes, 0)
            ELSE IF HasOnConflict(stmt)
            THEN insertedList(handleOnConflict(e, stmt.schema, stmt.relation, gv.values,
                                               stmt.conflict),
                              e, stmt, k, changes, n)
            ELSE insertedList(TransactionInsert(e, stmt.schema, stmt.relation, gv.values),
                              e, stmt, k, changes, n)

\* the loop body after list k: a nil tuple is not counted
insertedList(ins, e, stmt, k, changes, n) ==
    IF ins.err # NoErr THEN Result(ins.err, e, changes, 0)
    ELSE insertValueLists(ins.engine, stmt, k + 1, changes \o ins.changes,
                          IF Len(ins.rows) = 0 THEN n ELSE n + 1)

insertIntoTableExecutor(e, stmt) == insertValueLists(e, stmt, 1, <<>>, 0)

updateExecutor(e, stmt) ==
    LET gp == getPredicates(e, stmt.schema, stmt.relation, stmt.where)
        gs == getSets(EmptyMap, stmt.cols, stmt.lists[1], NamedValues(stmt), 1)
    IN IF gp.err # NoErr THEN Result(gp.err, e, <<>>, 0)
       ELSE IF gs.err # NoErr THEN Result(gs.err, e, <<>>, 0)
       ELSE RowsResult(TransactionUpdate(e, stmt.schema, stmt.relation, gs.values,
                                         gp.predicate), e)

\* a node of the syntax tree: token, lexeme, children
Decl(token, lexeme, decl) == [token |-> token, lexeme |-> lexeme, decl |-> decl]

\* a table as written in FROM: schema and alias are "" when absent, as says
\* the alias is written with AS
Table(schema, name, alias, as) == [schema |-> schema, name |-> name, alias |-> alias, as |-> as]

\* parseTableName: the node of the table name; its children are the schema,
\* when given, and the alias, a trailing identifier or the child of AS
parseTableName(t) ==
    Decl("StringToken", t.name,
         (IF t.schema = "" THEN <<>> ELSE <<Decl("SchemaToken", t.schema, <<>>)>>)
         \o (IF t.alias = "" THEN <<>>
             ELSE IF t.as
             THEN <<Decl("AsToken", "as", <<Decl("StringToken", t.alias, <<>>)>>)>>
             ELSE <<Decl("StringToken", t.alias, <<>>)>>))

\* Decl.Has: the node has a child of this token
Has(d, token) == \E i \in DOMAIN d.decl : d.decl[i].token = token

Child(d, token) == d.decl[CHOOSE i \in DOMAIN d.decl : d.decl[i].token = token]

\* the tree the parser makes of DELETE FROM [schema.]relation and of
\* TRUNCATE [schema.]relation: DELETE has the child FROM, whose child is the
\* table name with the schema below it; TRUNCATE has the child TABLE, whose
\* children are the table name and the schema
StatementDecl(stmt) ==
    IF stmt.kind = "delete"
    THEN Decl("DeleteToken", "delete",
              <<Decl("FromToken", "from",
                     <<parseTableName(Table(stmt.schema, stmt.relation, "", FALSE))>>)>>)
    ELSE Decl("TruncateToken", "truncate",
              <<Decl("TableToken", "table",
                     <<Decl("StringToken", stmt.relation, <<>>)>>
                     \o (IF stmt.schema = "" THEN <<>>
                         ELSE <<Decl("SchemaToken", stmt.schema, <<>>)>>))>>)

\* truncateExecutor: the schema is the SchemaToken child of the first child
\* of the statement, the relation the first child of that child; the count
\* is the one the kernel's truncate returns
truncateExecutor(e, stmt) ==
    LET trDecl == StatementDecl(stmt)
        schema == IF Has(trDecl.decl[1], "SchemaToken")
                  THEN Child(trDecl.decl[1], "SchemaToken").lexeme ELSE ""
        relation == trDecl.decl[1].decl[1].lexeme
        tr == TransactionTruncate(e, schema, relation)
    IN FixedResult(tr, e, tr.count)

\* DELETE without WHERE is handed to truncateExecutor
deleteExecutor(e, stmt) ==
    IF ~stmt.hasWhere THEN truncateExecutor(e, stmt)
    ELSE LET gp == getPredicates(e, stmt.schema, stmt.relation, stmt.where)
         IN IF gp.err # NoErr THEN Result(gp.err, e, <<>>, 0)
            ELSE RowsResult(TransactionDelete(e, stmt.schema, stmt.relation, gp.predicate),
                            e)

(***************************************************************************)
(* CREATE TABLE.  A table declaration is [columns, pk, fks]: the column    *)
(* declarations [name, typeName, isPk, unique, ref] (ref is <<>> or        *)
(* <<[refSchema, refTable, refCol]>>), the table-level PRIMARY KEY column  *)
(* list and the table-level FOREIGN KEY declarations.                      *)
(***************************************************************************)
ColumnDecl(name, typeName, isPk, unique, ref) ==
    [name |-> name, typeName |-> typeName, isPk |-> isPk, unique |-> unique, ref |-> ref]

ForeignKeyDecl(name, localColumns, refSchema, refRelation, refColumns) ==
    [name |-> name, localColumns |-> localColumns, refSchema |-> refSchema,
     refRelation |-> refRelation, refColumns |-> refColumns]

TableDecl(columns, pk, fks) == [columns |-> columns, pk |-> pk, fks |-> fks]

\* strings.ToLower on the names the declarations use
ToLower(name) == IF name = "A" THEN "a" ELSE name

\* parseAttribute that gives a bigserial column no auto-increment
parseAttributePlain(col) ==
    LET a0 == NewAttribute(col.name, col.typeName)
        a1 == IF col.unique THEN WithUnique(a0) ELSE a0
    IN IF Len(col.ref) > 0
       THEN WithForeignKey(a1, col.ref[1].refSchema, col.ref[1].refTable, col.ref[1].refCol)
       ELSE a1

\* parseAttribute: the attribute of a column declaration
parseAttribute(col) ==
    LET a0 == NewAttribute(ToLower(col.name), col.typeName)
        a1 == IF col.unique THEN WithUnique(a0) ELSE a0
        a2 == IF Len(col.ref) > 0
              THEN WithForeignKey(a1, col.ref[1].refSchema, col.ref[1].refTable,
                                  col.ref[1].refCol)
              ELSE a1
    IN IF col.typeName = "bigserial" THEN WithAutoIncrement(a2) ELSE a2

\* parseTableForeignKey that keeps the first local and the first referenced
\* column only
parseTableForeignKeyFirst(fkDecl, constraintName) ==
    NewForeignKey(constraintName, SubSeq(fkDecl.localColumns, 1, 1), fkDecl.refSchema,
                  fkDecl.refRelation, SubSeq(fkDecl.refColumns, 1, 1))

\* parseTableForeignKey: every local and every referenced column, in order
parseTableForeignKey(fkDecl, constraintName) ==
    NewForeignKey(constraintName, fkDecl.localColumns, fkDecl.refSchema,
                  fkDecl.refRelation, fkDecl.refColumns)

\* the foreign key attached to the first attribute of each local column's name
RECURSIVE distributeFK(_, _, _)
distributeFK(attributes, fk, k) ==
    IF k > Len(fk.localColumns) THEN attributes
    ELSE LET lc == fk.localColumns[k]
         IN IF HasAttr(attributes, lc)
            THEN LET ai == CHOOSE i \in DOMAIN attributes :
                               /\ attributes[i].name = lc
                               /\ \A j \in 1..(i - 1) : attributes[j].name # lc
                 IN distributeFK([attributes EXCEPT ![ai] = WithForeignKeyStruct(@, fk)],
                                 fk, k + 1)
            ELSE distributeFK(attributes, fk, k + 1)

\* table-level foreign keys parsed but attached to no attribute
distributeFKsDropped(attributes, fkDecls) == attributes

RECURSIVE distributeFKs(_, _)
distributeFKs(attributes, fkDecls) ==
    IF Len(fkDecls) = 0 THEN attributes
    ELSE distributeFKs(
             distributeFK(attributes,
                          parseTableForeignKey(Head(fkDecls), Head(fkDecls).name), 1),
             Tail(fkDecls))

InlinePk(columns) ==
    LET pkcols == SelectSeq(columns, LAMBDA c : c.isPk)
    IN [i \in DOMAIN pkcols |-> pkcols[i].name]

\* a CREATE TABLE that builds the relation anew when it exists
createTableExecutorAnew(e, stmt) ==
    LET decl == stmt.table[1]
        attributes == distributeFKs([i \in DOMAIN decl.columns |->
                                        parseAttribute(decl.columns[i])], decl.fks)
        pk == InlinePk(decl.columns) \o decl.pk
    IN FixedResult(TransactionCreateRelation(e, stmt.schema, stmt.relation, attributes, pk),
                   e, 1)

createTableExecutor(e, stmt) ==
    LET decl == stmt.table[1]
        exists == CheckRelation(e, stmt.schema, stmt.relation)
        attributes == distributeFKs([i \in DOMAIN decl.columns |->
                                        parseAttribute(decl.columns[i])], decl.fks)
        pk == InlinePk(decl.columns) \o decl.pk
    IN IF exists /\ stmt.flag THEN Result(NoErr, e, <<>>, 0)
       ELSE IF exists THEN Result("relation already exists", e, <<>>, 0)
       ELSE FixedResult(TransactionCreateRelation(e, stmt.schema, stmt.relation,
                                                  attributes, pk), e, 1)

\* DROP TABLE that returns no error whatever the kernel returns
dropTableSilent(e, stmt) ==
    LET schema == IF stmt.schema = "" THEN DefaultSchema ELSE stmt.schema
        dr == TransactionDropRelation(e, schema, stmt.relation)
    IN IF ~CheckRelation(e, schema, stmt.relation) THEN Result(NoErr, e, <<>>, 0)
       ELSE IF dr.err # NoErr THEN Result(NoErr, e, <<>>, 1)
       ELSE Result(NoErr, dr.engine, dr.changes, 1)

\* DROP TABLE: the schema defaults to the default schema
dropTable(e, stmt) ==
    LET schema == IF stmt.schema = "" THEN DefaultSchema ELSE stmt.schema
        exists == CheckRelation(e, schema, stmt.relation)
    IN IF ~exists /\ stmt.flag THEN Result(NoErr, e, <<>>, 0)
       ELSE IF ~exists THEN Result("relation does not exist", e, <<>>, 0)
       ELSE FixedResult(TransactionDropRelation(e, schema, stmt.relation), e, 1)

\* a DROP SCHEMA that removes the schema from the engine whatever it holds
dropSchemaWhole(e, stmt) ==
    IF stmt.flag /\ ~CheckSchema(e, stmt.relation) THEN Result(NoErr, e, <<>>, 0)
    ELSE FixedResult(Logged(EngineDropSchema(e, stmt.relation), e,
                            Change("dropSchema", stmt.relation, "", 0, <<>>, <<>>,
                                   IF CheckSchema(e, stmt.relation)
                                   THEN <<e.schemas[stmt.relation]>> ELSE <<>>)),
                     e, 1)

dropSchema(e, stmt) ==
    IF stmt.flag /\ ~CheckSchema(e, stmt.relation) THEN Result(NoErr, e, <<>>, 0)
    ELSE FixedResult(TransactionDropSchema(e, stmt.relation), e, 1)

createSchemaExecutor(e, stmt) ==
    IF stmt.flag /\ CheckSchema(e, stmt.relation) THEN Result(NoErr, e, <<>>, 0)
    ELSE FixedResult(TransactionCreateSchema(e, stmt.relation), e, 0)

\* CREATE INDEX [IF NOT EXISTS] name ON [schema.]relation (cols): cols holds
\* the indexed attributes, table the index name
createIndexExecutor(e, stmt) ==
    FixedResult(TransactionCreateIndex(e, stmt.schema, stmt.relation, stmt.table[1],
                                       stmt.cols), e, 0)

\* the handler of a statement, by its leading token
executeQuery(e, stmt) ==
    CASE stmt.kind = "insert" -> insertIntoTableExecutor(e, stmt)
      [] stmt.kind = "update" -> updateExecutor(e, stmt)
      [] stmt.kind = "delete" -> deleteExecutor(e, stmt)
      [] stmt.kind = "truncate" -> truncateExecutor(e, stmt)
      [] stmt.kind = "createTable" -> createTableExecutor(e, stmt)
      [] stmt.kind = "dropTable" -> dropTable(e, stmt)
      [] stmt.kind = "createSchema" -> createSchemaExecutor(e, stmt)
      [] stmt.kind = "dropSchema" -> dropSchema(e, stmt)
      [] stmt.kind = "createIndex" -> createIndexExecutor(e, stmt)

\* Tx.ExecContext over the instructions of one text, from instruction k on:
\* the first error ends the call
RECURSIVE ExecInstructions(_, _, _, _, _), executedQuery(_, _, _, _, _)
ExecInstructions(e, instructions, k, changes, rowsAffected) ==
    IF k > Len(instructions) THEN Result(NoErr, e, changes, rowsAffected)
    ELSE executedQuery(executeQuery(e, instructions[k]), instructions, k, changes,
                       rowsAffected)

\* a loop body that hands the next instruction the engine without the
\* changes of instruction k
executedQueryUnseen(r, instructions, k, changes, rowsAffected) ==
    IF r.err # NoErr THEN Result(r.err, r.engine, changes \o r.changes, 0)
    ELSE IF k = Len(instructions)
    THEN Result(NoErr, r.engine, changes \o r.changes, rowsAffected + r.affected)
    ELSE ExecInstructions(TransactionRollback(r.engine, r.changes), instructions, k + 1,
                          changes, rowsAffected + r.affected)

\* the loop body after instruction k returned r
executedQuery(r, instructions, k, changes, rowsAffected) ==
    IF r.err # NoErr THEN Result(r.err, r.engine, changes \o r.changes, 0)
    ELSE ExecInstructions(r.engine, instructions, k + 1, changes \o r.changes,
                          rowsAffected + r.affected)

\* parser.ParseInstruction: the instructions of the whole text, or an error
\* when one of its statements is not accepted
ParseInstruction(text) ==
    IF \E k \in DOMAIN text : text[k].kind = "syntaxError"
    THEN [err |-> "syntax error", instructions |-> <<>>]
    ELSE [err |-> NoErr, instructions |-> text]

\* an ExecContext that parses a statement only when it comes to execute it
TxExecContextStepwise(e, text) ==
    LET bad == {k \in DOMAIN text : text[k].kind = "syntaxError"}
        first == IF bad = {} THEN Len(text) + 1 ELSE CHOOSE k \in bad : \A j \in bad : k <= j
        r == ExecInstructions(e, SubSeq(text, 1, first - 1), 1, <<>>, 0)
    IN IF r.err # NoErr \/ bad = {} THEN r
       ELSE Result("syntax error", r.engine, r.changes, 0)

\* Tx.ExecContext: the text is parsed whole, then its instructions are
\* executed in order
TxExecContext(e, text) ==
    LET parsed == ParseInstruction(text)
    IN IF parsed.err # NoErr THEN Result(parsed.err, e, <<>>, 0)
       ELSE ExecInstructions(e, parsed.instructions, 1, <<>>, 0)

\* Rollback that returns without handing the change log to the kernel
TxRollbackSkipped(e, changes) == [err |-> NoErr, engine |-> e, mutex |-> FALSE]

\* Rollback that reports an error when the change log holds no record
TxRollbackReporting(e, changes) ==
    [err |-> IF changes = <<>> THEN "nothing to roll back" ELSE NoErr,
     engine |-> TransactionRollback(e, changes), mutex |-> FALSE]

\* Tx.Rollback: the kernel rollback, which releases the engine's mutex; never
\* an error
TxRollback(e, changes) ==
    [err |-> NoErr, engine |-> TransactionRollback(e, changes), mutex |-> FALSE]

\* Commit that keeps the engine's mutex
TxCommitHolding(e, changes) == [err |-> NoErr, engine |-> e, mutex |-> TRUE]

\* Tx.Commit: the change log is discarded and the engine's mutex released
TxCommit(e, changes) == [err |-> NoErr, engine |-> e, mutex |-> FALSE]

\* NewTransaction: the transaction takes the engine's mutex; the call returns
\* (ok) only when the mutex is free
NewTransaction(m) == [ok |-> ~m, mutex |-> TRUE]

\* Engine.Begin that returns a transaction whether or not the mutex is held
EngineBeginUnlocked(m) == [ok |-> TRUE, mutex |-> TRUE]

\* Engine.Begin
EngineBegin(m) == NewTransaction(m)

(***************************************************************************)
(* Inputs.  The tables are those of the composite-foreign-key scenario:    *)
(*   categories(name, catalog_id, PRIMARY KEY (name, catalog_id))          *)
(*   controls(id PRIMARY KEY, category_name, category_catalog_id,          *)
(*            FOREIGN KEY (category_name, category_catalog_id)             *)
(*            REFERENCES categories(name, catalog_id))                     *)
(***************************************************************************)
Names == {"a", "b"}
Catalogs == {"x", "y"}
Ids == {"1", "2"}

CategoriesDecl ==
    TableDecl(<<ColumnDecl("name", "text", FALSE, FALSE, <<>>),
                ColumnDecl("catalog_id", "text", FALSE, FALSE, <<>>)>>,
              <<"name", "catalog_id">>, <<>>)

ControlsDecl ==
    TableDecl(<<ColumnDecl("id", "text", TRUE, FALSE, <<>>),
                ColumnDecl("category_name", "text", FALSE, FALSE, <<>>),
                ColumnDecl("category_catalog_id", "text", FALSE, FALSE, <<>>)>>,
              <<>>,
              <<ForeignKeyDecl("", <<"category_name", "category_catalog_id">>, "",
                               "categories", <<"name", "catalog_id">>)>>)

NoWhere == [cols |-> <<>>, vals |-> <<>>]

CreateTableStmts ==
    {Statement("createTable", "", "categories", <<>>, <<>>, NoWhere, FALSE, f,
               <<CategoriesDecl>>, <<>>) : f \in BOOLEAN}
    \cup {Statement("createTable", "", "controls", <<>>, <<>>, NoWhere, FALSE, FALSE,
                    <<ControlsDecl>>, <<>>)}

DropTableStmts ==
    {Statement("dropTable", "", t, <<>>, <<>>, NoWhere, FALSE, FALSE, <<>>, <<>>) :
        t \in {"categories", "controls"}}

SchemaStmts(kind) ==
    {Statement(kind, "", "foo", <<>>, <<>>, NoWhere, FALSE, FALSE, <<>>, <<>>)}

CategoriesCols == <<"name", "catalog_id">>
ControlsCols == <<"id", "category_name", "category_catalog_id">>

InsertStmt(t, cols, lists, args) ==
    Statement("insert", "", t, cols, lists, NoWhere, FALSE, FALSE, <<>>, args)

\* one value list
InsertStmts ==
    {InsertStmt("categories", CategoriesCols, <<<<n, c>>>>, <<>>) :
        n \in Names, c \in Catalogs}
    \cup {InsertStmt("controls", ControlsCols, <<<<i, n, c>>>>, <<>>) :
            i \in Ids, n \in Names, c \in Catalogs}

\* two value lists, the second given literally or as parameters
MultiInsertStmts ==
    {InsertStmt("categories", CategoriesCols, <<<<"a", "x">>, <<n, "x">>>>, <<>>) :
        n \in Names}
    \cup {InsertStmt("controls", ControlsCols, <<<<"1", "a", "x">>, <<i, "a", c>>>>, <<>>) :
            i \in Ids, c \in Catalogs}
    \cup {InsertStmt("categories", CategoriesCols, <<<<"b", "y">>, <<"$1", "$2">>>>, args) :
            args \in {<<"a">>, <<"a", "y">>}}

UpdateStmt(t, cols, vals, where) ==
    Statement("update", "", t, cols, <<vals>>, where, TRUE, FALSE, <<>>, <<>>)

UpdateStmts ==
    {UpdateStmt("categories", <<"name">>, <<n>>,
                NewEqPredicates(<<"name", "catalog_id">>, <<n0, c0>>)) :
        n \in Names, n0 \in Names, c0 \in Catalogs}
    \cup {UpdateStmt("controls", <<"category_name", "category_catalog_id">>, <<n, c>>,
                     NewEqPredicates(<<"id">>, <<i>>)) :
            n \in Names, c \in Catalogs, i \in Ids}
    \cup {UpdateStmt("controls", <<"category_catalog_id">>, <<c>>,
                     NewEqPredicates(<<"id">>, <<"1">>)) : c \in Catalogs}

DeleteStmt(t, where, hasWhere) ==
    Statement("delete", "", t, <<>>, <<>>, where, hasWhere, FALSE, <<>>, <<>>)

DeleteStmts ==
    {DeleteStmt("categories", NewEqPredicates(<<"name", "catalog_id">>, <<n, c>>), TRUE) :
        n \in Names, c \in Catalogs}
    \cup {DeleteStmt("categories", NewEqPredicates(<<"name">>, <<n>>), TRUE) : n \in Names}
    \cup {DeleteStmt("controls", NewEqPredicates(<<"id">>, <<i>>), TRUE) : i \in Ids}
    \cup {DeleteStmt(t, NoWhere, FALSE) : t \in {"categories", "controls"}}

TruncateStmts ==
    {Statement("truncate", "", t, <<>>, <<>>, NoWhere, FALSE, FALSE, <<>>, <<>>) :
        t \in {"categories", "controls"}}

(***************************************************************************)
(* The state machine: one engine, one caller running transactions.         *)
(*   engine    the engine                                                  *)
(*   tx        the caller's transaction: open, its change log, the number  *)
(*             of statements it has executed                               *)
(*   snapshot  the engine as it was at the last begin                      *)
(*   last      the last call and its outcome                               *)
(*   mutex     the engine's mutex is held                                  *)
(*   dbName    the name the engine was opened with                         *)
(*   driver    the driver's named engines and open handles (the seventh    *)
(*             specification)                                              *)
(*   callers   the concurrent callers (the third specification onwards)    *)
(*   order     the callers in the order they acquired the mutex            *)
(***************************************************************************)
VARIABLES engine, tx, snapshot, last, mutex, dbName, callers, order, driver

vars == <<engine, tx, snapshot, last, mutex, dbName, callers, order, driver>>

\* what a single caller's transaction leaves alone
others == <<dbName, callers, order, driver>>

NoStmt == Statement("", "", "", <<>>, <<>>, NoWhere, FALSE, FALSE, <<>>, <<>>)

\* log is the length of the change log when the call was made
Last(op, err, affected, stmt, log) ==
    [op |-> op, err |-> err, affected |-> affected, stmt |-> stmt, log |-> log]

\* the engine after the two CREATE TABLE statements of the scenario
SetupEngine ==
    TxExecContext(NewEngine,
                  <<Statement("createTable", "", "categories", <<>>, <<>>, NoWhere, FALSE,
                              FALSE, <<CategoriesDecl>>, <<>>),
                    Statement("createTable", "", "controls", <<>>, <<>>, NoWhere, FALSE,
                              FALSE, <<ControlsDecl>>, <<>>)>>).engine

NoTx == [open |-> FALSE, changes |-> <<>>, stmts |-> 0]

\* one caller, no concurrent ones
Single ==
    /\ mutex = FALSE
    /\ dbName = ""
    /\ callers = <<>>
    /\ order = <<>>
    /\ driver = <<>>

Init ==
    /\ engine = SetupEngine
    /\ tx = NoTx
    /\ snapshot = engine
    /\ last = Last("open", NoErr, 0, NoStmt, 0)
    /\ Single

\* Engine.Begin: the transaction takes the engine's mutex
Begin ==
    /\ ~tx.open
    /\ EngineBegin(mutex).ok
    /\ mutex' = EngineBegin(mutex).mutex
    /\ tx' = [open |-> TRUE, changes |-> <<>>, stmts |-> 0]
    /\ snapshot' = engine
    /\ last' = Last("begin", NoErr, 0, NoStmt, 0)
    /\ UNCHANGED <<engine, others>>

\* the state after ExecContext returned r for stmt
Executed(stmt, r) ==
    /\ engine' = r.engine
    /\ tx' = [tx EXCEPT !.changes = @ \o r.changes, !.stmts = @ + 1]
    /\ last' = Last(stmt.kind, r.err, r.affected, stmt, Len(tx.changes))
    /\ UNCHANGED <<mutex, others>>

\* a statement may be executed: the transaction is open and has room
CanExec == tx.open /\ tx.stmts < MaxStmts

\* Tx.ExecContext of a one-statement text
Exec(stmt) ==
    /\ Executed(stmt, TxExecContext(engine, <<stmt>>))
    /\ UNCHANGED snapshot

RowsOf(t) == IF HasRelation(engine, "", t) THEN Len(GetRelation(engine, "", t).rows) ELSE 0

ExecInsert == \E stmt \in InsertStmts \cup MultiInsertStmts :
                  /\ CanExec
                  /\ IF stmt.relation = "controls"
                     THEN RowsOf("controls") < MaxChildRows
                     ELSE RowsOf(stmt.relation) + Len(stmt.lists) <= MaxRows
                  /\ Exec(stmt)

ExecUpdate == \E stmt \in UpdateStmts : CanExec /\ Exec(stmt)

ExecDelete == \E stmt \in DeleteStmts : CanExec /\ Exec(stmt)

ExecTruncate == \E stmt \in TruncateStmts : CanExec /\ Exec(stmt)

\* the state after Commit or Rollback returned r
Closed(op, r) ==
    /\ engine' = r.engine
    /\ tx' = NoTx
    /\ mutex' = r.mutex
    /\ last' = Last(op, r.err, 0, NoStmt, Len(tx.changes))
    /\ UNCHANGED others

\* Tx.Commit
Commit ==
    /\ tx.open
    /\ Closed("commit", TxCommit(engine, tx.changes))
    /\ snapshot' = engine'

\* Tx.Rollback
Rollback ==
    /\ tx.open
    /\ Closed("rollback", TxRollback(engine, tx.changes))
    /\ UNCHANGED snapshot

Next ==
    \/ Begin
    \/ ExecInsert
    \/ ExecUpdate
    \/ ExecDelete
    \/ ExecTruncate
    \/ Commit
    \/ Rollback

Spec == Init /\ [][Next]_vars

(***************************************************************************)
(* The second specification starts from a new engine and adds the schema   *)
(* statements: CREATE/DROP TABLE and CREATE/DROP SCHEMA, with a few data   *)
(* statements on the tables they create.                                   *)
(***************************************************************************)
InitDDL ==
    /\ engine = NewEngine
    /\ tx = NoTx
    /\ snapshot = engine
    /\ last = Last("open", NoErr, 0, NoStmt, 0)
    /\ Single

DataStmtsDDL ==
    {InsertStmt("categories", CategoriesCols, <<<<"a", c>>>>, <<>>) : c \in Catalogs}
    \cup {InsertStmt("controls", ControlsCols, <<<<"1", "a", "x">>>>, <<>>),
          UpdateStmt("categories", <<"name">>, <<"b">>,
                     NewEqPredicates(<<"name", "catalog_id">>, <<"a", "y">>)),
          DeleteStmt("categories", NewEqPredicates(<<"name">>, <<"a">>), TRUE),
          DeleteStmt("controls", NoWhere, FALSE)}
    \cup TruncateStmts

ExecCreateTable == \E stmt \in CreateTableStmts : CanExec /\ Exec(stmt)

ExecDropTable == \E stmt \in DropTableStmts : CanExec /\ Exec(stmt)

ExecCreateSchema == \E stmt \in SchemaStmts("createSchema") : CanExec /\ Exec(stmt)

ExecDropSchema == \E stmt \in SchemaStmts("dropSchema") : CanExec /\ Exec(stmt)

ExecData == \E stmt \in DataStmtsDDL :
                /\ CanExec
                /\ stmt.kind = "insert" => RowsOf(stmt.relation) < MaxRows
                /\ Exec(stmt)

NextDDL ==
    \/ Begin
    \/ ExecCreateTable
    \/ ExecDropTable
    \/ ExecCreateSchema
    \/ ExecDropSchema
    \/ ExecData
    \/ Commit
    \/ Rollback

SpecDDL == InitDDL /\ [][NextDDL]_vars

(***************************************************************************)
(* Properties.  They read the rows directly: a categories row is           *)
(* <<name, catalog_id>>, a controls row <<id, category_name,               *)
(* category_catalog_id>>.                                                  *)
(***************************************************************************)
\* the step is an ExecContext call
ExecStep == tx'.stmts = tx.stmts + 1

\* the relations of an engine, as <<schema, relation>> names
RelationsOf(e) ==
    UNION {{<<s, n>> : n \in DOMAIN e.schemas[s].relations} : s \in DOMAIN e.schemas}

RowsIn(e, t) == e.schemas[DefaultSchema].relations[t].rows

\* some categories row of e is <<n, c>>
HasParent(e, n, c) == \E i \in DOMAIN RowsIn(e, "categories") : RowsIn(e, "categories")[i] = <<n, c>>

\* some controls row of e references <<n, c>> on both columns
HasChild(e, n, c) ==
    \E i \in DOMAIN RowsIn(e, "controls") :
        RowsIn(e, "controls")[i][2] = n /\ RowsIn(e, "controls")[i][3] = c

\* C1: after a rollback the engine (schemas, relations, rows in order,
\* indexes) is the engine as it was at the matching begin, whatever CREATE
\* TABLE, DROP TABLE, CREATE SCHEMA, DROP SCHEMA, INSERT, UPDATE, DELETE and
\* TRUNCATE statements the transaction executed
C1_RollbackRestores == last.op = "rollback" => engine = snapshot

\* a rollback that had at least two undo records to apply
C1_Witness == last.op = "rollback" /\ last.log >= 2 /\ engine = snapshot

\* C2: a statement that returns an error leaves none of its own mutations
\* in the engine (a multi-row INSERT whose k-th value list fails leaves none
\* of the rows of lists 1..k-1)
C2_FailedStatementLeavesNothing ==
    [][(ExecStep /\ last'.err # NoErr) => engine' = engine]_vars

\* the rows at positions i and j differ on some attribute of cols
DifferOn(rows, cols, i, j) == \E k \in DOMAIN cols : rows[i][cols[k]] # rows[j][cols[k]]

\* C3: in every reachable state, no two distinct rows of a relation agree on
\* the relation's primary key, nor on a UNIQUE column
C3_KeysUnique ==
    \A sn \in RelationsOf(engine) :
        LET r == engine.schemas[sn[1]].relations[sn[2]]
        IN \A i, j \in DOMAIN r.rows :
              i # j =>
                /\ Len(r.pk) > 0 => DifferOn(r.rows, r.pk, i, j)
                /\ \A a \in DOMAIN r.attributes :
                       r.attributes[a].unique => r.rows[i][a] # r.rows[j][a]

\* C4: in every reachable state, every controls row whose foreign-key columns
\* are not NULL has a categories row equal to it on both referenced columns
C4_ReferentialIntegrity ==
    \A i \in DOMAIN RowsIn(engine, "controls") :
        LET row == RowsIn(engine, "controls")[i]
        IN (row[2] # Null /\ row[3] # Null) => HasParent(engine, row[2], row[3])

\* the statement the step executes, and the rows before and after it
Stmt == last'.stmt
Before(t) == RowsIn(engine, t)
After(t) == RowsIn(engine', t)

\* the step executes a statement of this kind on this table
Executes(kind, t) == ExecStep /\ last'.op = kind /\ Stmt.relation = t

\* a row meets the WHERE conjunction of stmt; cols lists the table's columns
Meets(stmt, cols, row) ==
    \A k \in DOMAIN stmt.where.cols :
        \E a \in DOMAIN cols : cols[a] = stmt.where.cols[k] /\ row[a] = stmt.where.vals[k]

\* the positions of the rows stmt addresses
Targets(stmt, cols, rows) == {i \in DOMAIN rows : Meets(stmt, cols, rows[i])}

\* the value of column col after the SET list of stmt, old being its value before
SetValue(stmt, col, old) ==
    IF \E k \in DOMAIN stmt.cols : stmt.cols[k] = col
    THEN stmt.lists[1][CHOOSE k \in DOMAIN stmt.cols : stmt.cols[k] = col]
    ELSE old

\* the value lists of stmt carry ids that are distinct and not yet in controls
FreshIds(stmt) ==
    /\ \A k, l \in DOMAIN stmt.lists : k # l => stmt.lists[k][1] # stmt.lists[l][1]
    /\ \A k \in DOMAIN stmt.lists : \A i \in DOMAIN Before("controls") :
           Before("controls")[i][1] # stmt.lists[k][1]

\* C5: an INSERT into controls (composite foreign key on category_name,
\* category_catalog_id) succeeds only if every row it inserts has a categories
\* row equal to it on BOTH referenced columns, paired by position; otherwise
\* it fails with `foreign key violation` and controls is unchanged
C5_CompositeInsert ==
    [][(Executes("insert", "controls") /\ FreshIds(Stmt)) =>
         LET matched == \A k \in DOMAIN Stmt.lists :
                            HasParent(engine, Stmt.lists[k][2], Stmt.lists[k][3])
         IN /\ last'.err = NoErr => matched
            /\ ~matched => /\ last'.err = "foreign key violation"
                           /\ After("controls") = Before("controls")]_vars

\* C6: a DELETE on categories fails with `foreign key restrict` exactly when
\* some row it addresses is referenced by a controls row on BOTH columns (a
\* row sharing only one column with a referenced key is deletable); a
\* rejected DELETE leaves every relation unchanged, an accepted one removes
\* the addressed rows
C6_DeleteRestrict ==
    [][Executes("delete", "categories") =>
         LET rows == Before("categories")
             targets == Targets(Stmt, CategoriesCols, rows)
             referenced == \E i \in targets : HasChild(engine, rows[i][1], rows[i][2])
         IN /\ (last'.err = "foreign key restrict") <=> referenced
            /\ last'.err # NoErr => engine' = engine
            /\ last'.err = NoErr =>
                   After("categories") =
                       SelectSeq(rows, LAMBDA row : ~Meets(Stmt, CategoriesCols, row))]_vars

\* C7: an UPDATE that changes the name (a referenced column) of a categories
\* row a controls row references is rejected with `foreign key restrict`, and
\* the engine (rows and indexes) is unchanged
C7_UpdateParentRestrict ==
    [][(/\ Executes("update", "categories")
        /\ \E i \in Targets(Stmt, CategoriesCols, Before("categories")) :
              LET row == Before("categories")[i]
              IN /\ SetValue(Stmt, "name", row[1]) # row[1]
                 /\ HasChild(engine, row[1], row[2]))
       => (last'.err = "foreign key restrict" /\ engine' = engine)]_vars

\* a rejected UPDATE of the name of a referenced categories row
C7_Witness ==
    /\ last.op = "update" /\ last.stmt.relation = "categories"
    /\ last.err = "foreign key restrict"
    /\ last.stmt.lists[1][1] # last.stmt.where.vals[1]
    /\ HasParent(engine, last.stmt.where.vals[1], last.stmt.where.vals[2])
    /\ HasChild(engine, last.stmt.where.vals[1], last.stmt.where.vals[2])

\* the controls row after the SET list of stmt
NewChild(stmt, row) ==
    <<row[1], SetValue(stmt, "category_name", row[2]),
      SetValue(stmt, "category_catalog_id", row[3])>>

\* C8: an UPDATE of the foreign-key columns of controls rows succeeds, and
\* rewrites the rows, when the new composite value of every addressed row
\* equals a categories row on both columns; otherwise it fails with `foreign
\* key violation` and the engine is unchanged
C8_UpdateChild ==
    [][(/\ Executes("update", "controls")
        /\ Targets(Stmt, ControlsCols, Before("controls")) # {})
       => LET rows == Before("controls")
              targets == Targets(Stmt, ControlsCols, rows)
          IN IF \A i \in targets : HasParent(engine, NewChild(Stmt, rows[i])[2],
                                             NewChild(Stmt, rows[i])[3])
             THEN /\ last'.err = NoErr
                  /\ After("controls") = [i \in DOMAIN rows |->
                                             IF i \in targets THEN NewChild(Stmt, rows[i])
                                             ELSE rows[i]]
             ELSE /\ last'.err = "foreign key violation"
                  /\ engine' = engine]_vars

\* a rejected UPDATE of a controls row to a composite value no categories row has
C8_Witness ==
    /\ last.op = "update" /\ last.stmt.relation = "controls"
    /\ last.err = "foreign key violation"
    /\ \E i \in DOMAIN RowsIn(engine, "controls") :
          LET row == RowsIn(engine, "controls")[i]
          IN /\ row[1] = last.stmt.where.vals[1]
             /\ ~HasParent(engine, NewChild(last.stmt, row)[2], NewChild(last.stmt, row)[3])

\* the entries an index of r holds when it files exactly the rows of r, each
\* under the key its current values give
EntriesOf(r, ix) ==
    LET entry(i) == <<[a \in DOMAIN ix.attrs |-> r.rows[i][ix.attrs[a]]], r.rows[i]>>
        entries == {entry(i) : i \in DOMAIN r.rows}
    IN [x \in entries |-> Cardinality({i \in DOMAIN r.rows : entry(i) = x})]

\* C9: in every reachable state (after any INSERT, UPDATE, DELETE, TRUNCATE,
\* commit or rollback) every hash index of every relation files exactly the
\* rows of the relation, each under the key of its current values
C9_IndexesConsistent ==
    \A sn \in RelationsOf(engine) :
        LET r == engine.schemas[sn[1]].relations[sn[2]]
        IN \A k \in DOMAIN r.indexes : r.indexes[k].entries = EntriesOf(r, r.indexes[k])

\* an UPDATE moved a controls row, filed in two indexes, to another key
C9_Witness ==
    /\ last.op = "update" /\ last.stmt.relation = "controls"
    /\ last.err = NoErr /\ last.affected = 1
    /\ Len(engine.schemas[DefaultSchema].relations["controls"].indexes) = 2
    /\ tx.changes[Len(tx.changes)].row # tx.changes[Len(tx.changes)].old

\* the indexes of a relation with their entries left out
IndexList(r) == [k \in DOMAIN r.indexes |-> [r.indexes[k] EXCEPT !.entries = EmptyBag]]

\* C10: TRUNCATE returns the number of rows the relation held, leaves it with
\* no rows and every index empty, and keeps its attributes, primary key and
\* index list; a second TRUNCATE right after the first returns 0 and leaves
\* the same state
C10_Truncate ==
    [][(ExecStep /\ last'.op = "truncate") =>
         LET r == engine.schemas[DefaultSchema].relations[Stmt.relation]
             r2 == engine'.schemas[DefaultSchema].relations[Stmt.relation]
         IN /\ last'.err = NoErr
            /\ last'.affected = Len(r.rows)
            /\ r2.rows = <<>>
            /\ \A k \in DOMAIN r2.indexes : r2.indexes[k].entries = EmptyBag
            /\ r2.attributes = r.attributes /\ r2.pk = r.pk
            /\ IndexList(r2) = IndexList(r)
            /\ (last.op = "truncate" /\ last.stmt = Stmt /\ last.err = NoErr) =>
                   (last'.affected = 0 /\ engine' = engine)]_vars

\* a TRUNCATE that removed rows, followed at once by a second one that returned 0
C10_Witness ==
    /\ last.op = "truncate" /\ last.err = NoErr /\ last.affected = 0
    /\ Len(tx.changes) >= 2
    /\ LET c1 == tx.changes[Len(tx.changes) - 1]
           c2 == tx.changes[Len(tx.changes)]
       IN /\ c1.kind = "truncate" /\ c2.kind = "truncate"
          /\ c1.relation = c2.relation
          /\ Len(c1.saved) > 0 /\ Len(c2.saved) = 0

(***************************************************************************)
(* SELECT.  A query is the token-level text the parser receives:           *)
(*   items    the select items, tokens [token, lexeme]                     *)
(*   from     <<>> or <<table>>                                            *)
(*   clauses  the LIMIT / OFFSET clauses in the order they are written,    *)
(*            [kw, tok] with kw the keyword token and tok the token that   *)
(*            follows it; the lexer hands a numeric literal over as a      *)
(*            NumberToken and $N as an ArgToken with lexeme N              *)
(*   args     the bound arguments                                          *)
(* A declaration is the tree the parser builds, flattened to [items, from, *)
(* clauses] with the clauses as children in written order.                 *)
(***************************************************************************)
Token(token, lexeme) == [token |-> token, lexeme |-> lexeme]

\* a condition as written in WHERE: [table.]col op value, followed by the
\* link AND / OR or by nothing (""); op is "=", "<>", "IS NULL" or
\* "IS NOT NULL" (value unused for the last two)
Condition(table, col, op, value, link) ==
    [table |-> table, col |-> col, op |-> op, value |-> value, link |-> link]

\* SELECT items FROM from WHERE where, with the bound arguments
QueryWhere(items, from, where, args) ==
    [kind |-> "select", items |-> items, from |-> from, where |-> where, clauses |-> <<>>,
     args |-> args, distinct |-> <<>>]

\* SELECT DISTINCT [ON (on)] items FROM from: distinct holds the columns of ON,
\* none for a plain DISTINCT
QueryDistinct(items, from, on) ==
    [QueryWhere(items, from, <<>>, <<>>) EXCEPT !.distinct = <<on>>]

\* SELECT items FROM from (plain table names) followed by LIMIT / OFFSET
\* clauses
Query(items, from, clauses, args) ==
    [kind |-> "select", items |-> items,
     from |-> [i \in DOMAIN from |-> Table("", from[i], "", FALSE)], where |-> <<>>,
     clauses |-> clauses, args |-> args, distinct |-> <<>>]

\* parser.consumeToken: the current token when its kind is among the
\* expected ones, a syntax error otherwise
consumeToken(tok, expected) ==
    IF tok.token \in expected THEN [err |-> NoErr, decl |-> tok]
    ELSE [err |-> "syntax error", decl |-> tok]

\* parseSelect, the LIMIT / OFFSET loop from clause k on: each keyword must
\* be followed by a NumberToken
RECURSIVE parseSelectClauses(_, _, _)
parseSelectClauses(clauses, k, decls) ==
    IF k > Len(clauses) THEN [err |-> NoErr, decls |-> decls]
    ELSE LET num == consumeToken(clauses[k].tok, {"NumberToken"})
         IN IF num.err # NoErr THEN [err |-> num.err, decls |-> <<>>]
            ELSE parseSelectClauses(clauses, k + 1,
                                    Append(decls, [kw |-> clauses[k].kw, tok |-> num.decl]))

\* parseAttribute in a select item or a condition: the node of the column;
\* the table it is qualified with is its first child
parseQualified(table, col) ==
    Decl("StringToken", col,
         IF table = "" THEN <<>> ELSE <<Decl("StringToken", table, <<>>)>>)

\* parseCondition: the attribute node, with the operator and the value added
\* as children; IS carries NOT and NULL as its own children
parseCondition(c) ==
    LET attributeDecl == parseQualified(c.table, c.col)
        add == CASE c.op = "=" -> <<Decl("EqualityToken", "=", <<>>),
                                    Decl(c.value.token, c.value.lexeme, <<>>)>>
                 [] c.op = "<>" -> <<Decl("DistinctnessToken", "<>", <<>>),
                                     Decl(c.value.token, c.value.lexeme, <<>>)>>
                 [] c.op = "IS NULL" ->
                        <<Decl("IsToken", "is", <<Decl("NullToken", "null", <<>>)>>)>>
                 [] c.op = "IS NOT NULL" ->
                        <<Decl("IsToken", "is", <<Decl("NotToken", "not", <<>>),
                                                  Decl("NullToken", "null", <<>>)>>)>>
    IN [attributeDecl EXCEPT !.decl = @ \o add]

\* parseWhere from condition k on: the conditions and the links between
\* them become the children of WHERE, one after another
RECURSIVE parseWhere(_, _)
parseWhere(where, k) ==
    IF k > Len(where) THEN <<>>
    ELSE <<parseCondition(where[k])>>
         \o (IF where[k].link = "" THEN <<>> ELSE <<Decl(where[k].link, "", <<>>)>>)
         \o parseWhere(where, k + 1)

\* parseSelect: [err, decl]
parseSelect(q) ==
    LET tail == IF Len(q.from) = 0 THEN [err |-> NoErr, decls |-> <<>>]
                ELSE parseSelectClauses(q.clauses, 1, <<>>)
    IN [err |-> tail.err,
        decl |-> [items |-> q.items,
                  from |-> [i \in DOMAIN q.from |-> parseTableName(q.from[i])],
                  where |-> parseWhere(q.where, 1),
                  clauses |-> tail.decls,
                  distinct |-> [i \in DOMAIN q.distinct |->
                                   Decl("DistinctToken", "distinct",
                                        [k \in DOMAIN q.distinct[i] |->
                                            Decl("StringToken", q.distinct[i][k], <<>>)])]]]

NumLexemes == <<"0", "1", "2", "3", "4", "5">>

\* strconv.Atoi / strconv.ParseInt of a lexeme: [err, n]
ParseInt(lexeme) ==
    IF \E i \in DOMAIN NumLexemes : NumLexemes[i] = lexeme
    THEN [err |-> NoErr, n |-> (CHOOSE i \in DOMAIN NumLexemes : NumLexemes[i] = lexeme) - 1]
    ELSE [err |-> "invalid syntax", n |-> 0]

NewOffsetSorter(n) == [kind |-> "offset", n |-> n]

NewLimitSorter(n) == [kind |-> "limit", n |-> n]

NewDistinctSorter(rel, dattrs) == [kind |-> "distinct", n |-> 0, rel |-> rel, attrs |-> dattrs]

\* the values of a row under the attributes a distinct sorter names
DistinctKey(attributes, sorter, row) ==
    [k \in DOMAIN sorter.attrs |-> row[AttrIndex(attributes, sorter.attrs[k])]]

\* the distinct sorter: of the rows that agree on the named attributes the
\* first one is kept
DistinctExec(attributes, sorter, rows) ==
    LET first(i) == \A j \in 1..(i - 1) :
                        DistinctKey(attributes, sorter, rows[j])
                            # DistinctKey(attributes, sorter, rows[i])
        RECURSIVE kept(_)
        kept(i) == IF i > Len(rows) THEN <<>>
                   ELSE (IF first(i) THEN <<rows[i]>> ELSE <<>>) \o kept(i + 1)
    IN kept(1)

RECURSIVE ApplyDistinct(_, _, _)
ApplyDistinct(attributes, sorters, rows) ==
    IF Len(sorters) = 0 THEN rows
    ELSE ApplyDistinct(attributes, Tail(sorters), DistinctExec(attributes, Head(sorters), rows))

\* a sorter applied to the rows it receives
SorterExec(sorter, rows) ==
    IF sorter.kind = "offset"
    THEN IF sorter.n >= Len(rows) THEN <<>> ELSE SubSeq(rows, sorter.n + 1, Len(rows))
    ELSE IF sorter.n >= Len(rows) THEN rows ELSE SubSeq(rows, 1, sorter.n)

\* the sorters in the order the kernel applies them: OFFSET before LIMIT,
\* whatever the order they were collected in
OrderedSorters(sorters) ==
    SelectSeq(sorters, LAMBDA x : x.kind = "offset")
        \o SelectSeq(sorters, LAMBDA x : x.kind = "limit")

RECURSIVE ApplySorters(_, _)
ApplySorters(sorters, rows) ==
    IF Len(sorters) = 0 THEN rows
    ELSE ApplySorters(Tail(sorters), SorterExec(Head(sorters), rows))

\* a scan that yields the matching rows last row first
RelationScannerExecReversed(r, predicate) ==
    LET rows == SelectSeq(r.rows, LAMBDA row : Matches(r, predicate, row))
    IN [k \in DOMAIN rows |-> rows[Len(rows) + 1 - k]]

\* RelationScanner.Exec: the rows of the source that satisfy the predicate,
\* in the order of the source
RelationScannerExec(r, predicate) ==
    SelectSeq(r.rows, LAMBDA row : Matches(r, predicate, row))

\* a scanner that yields no tuple
SingleRowScannerExecNone == <<>>

\* SingleRowScanner.Exec: one tuple with no columns
SingleRowScannerExec == <<<<>>>>

NewStarSelector(relation) == [kind |-> "star", relation |-> relation, value |-> ""]

NewConstSelector(relation, value) == [kind |-> "const", relation |-> relation, value |-> value]

NewAttributeSelector(relation, attribute) ==
    [kind |-> "attribute", relation |-> relation, value |-> attribute]

\* the columns the selectors project a scanned tuple to
SelectTuple(attributes, selectors, tuple) ==
    IF \E i \in DOMAIN selectors : selectors[i].kind = "star" THEN tuple
    ELSE [i \in DOMAIN selectors |->
             IF selectors[i].kind = "attribute"
             THEN tuple[AttrIndex(attributes, selectors[i].value)]
             ELSE selectors[i].value]

\* Transaction.Query without joins: scan, sort, project
TransactionQuery(e, schema, tables, selectors, predicate, sorters) ==
    IF Len(tables) = 0
    THEN [err |-> NoErr,
          rows |-> [i \in DOMAIN SingleRowScannerExec |->
                       SelectTuple(<<>>, selectors, SingleRowScannerExec[i])]]
    ELSE IF ~HasRelation(e, schema, tables[1])
    THEN [err |-> "relation does not exist", rows |-> <<>>]
    ELSE LET r == GetRelation(e, schema, tables[1])
             scanned == RelationScannerExec(r, predicate)
             ordered == OrderedSorters(sorters)
             sorted == ApplySorters(SelectSeq(ordered, LAMBDA x : x.kind = "limit"),
                           ApplyDistinct(r.attributes,
                               SelectSeq(sorters, LAMBDA x : x.kind = "distinct"),
                               ApplySorters(SelectSeq(ordered, LAMBDA x : x.kind = "offset"),
                                            scanned)))
         IN [err |-> NoErr,
             rows |-> [i \in DOMAIN sorted |-> SelectTuple(r.attributes, selectors, sorted[i])]]

\* getSelectedTables from table k of FROM on: the schema of the last
\* table, the table names, and the aliases mapped to the names they stand
\* for
RECURSIVE getSelectedTablesFrom(_, _, _, _, _)
getSelectedTablesFrom(from, k, schema, tables, aliases) ==
    IF k > Len(from) THEN [schema |-> schema, tables |-> tables, aliases |-> aliases]
    ELSE LET t == from[k]
             tableName == t.lexeme
             trailing == IF Len(t.decl) > 0 /\ t.decl[Len(t.decl)].token = "StringToken"
                         THEN MapPut(aliases, t.decl[Len(t.decl)].lexeme, tableName)
                         ELSE aliases
             explicit == IF Has(t, "AsToken") /\ Len(Child(t, "AsToken").decl) > 0
                         THEN MapPut(trailing, Child(t, "AsToken").decl[1].lexeme, tableName)
                         ELSE trailing
         IN getSelectedTablesFrom(from, k + 1,
                                  IF Has(t, "SchemaToken") THEN Child(t, "SchemaToken").lexeme
                                  ELSE "",
                                  Append(tables, tableName), explicit)

getSelectedTables(from) == getSelectedTablesFrom(from, 1, "", <<>>, EmptyMap)

\* a getAlias that leaves every name as it is written
getAliasWritten(t, aliases) == t

\* getAlias: the relation an alias stands for, the name itself otherwise
getAlias(t, aliases) == IF t \in DOMAIN aliases THEN aliases[t] ELSE t

\* Transaction.RelationAttribute: the relation and the attribute must exist
TransactionRelationAttribute(e, schema, relation, attribute) ==
    IF ~HasRelation(e, schema, relation)
    THEN [index |-> 0, err |-> "relation does not exist"]
    ELSE RelationAttribute(GetRelation(e, schema, relation), attribute)

\* the comparison tokens Tx.getPredicates expects as the first child of a
\* condition that has no table qualifier
OperatorTokens ==
    {"IsToken", "InToken", "EqualityToken", "DistinctnessToken", "LeftDipleToken",
     "RightDipleToken", "LessOrEqualToken", "GreaterOrEqualToken"}

\* isExecutor: IS NULL is the Eq comparison of the attribute with the nil
\* constant, IS NOT NULL its negation
isExecutor(rname, aname, isDecl) ==
    LET p == NewEqPredicate(NewAttributeValueFunctor(rname, aname), NewConstValueFunctor(Null))
    IN IF isDecl.decl[1].token = "NullToken" THEN [err |-> NoErr, predicate |-> p]
       ELSE IF isDecl.decl[1].token = "NotToken" /\ Len(isDecl.decl) > 1
               /\ isDecl.decl[2].token = "NullToken"
       THEN [err |-> NoErr, predicate |-> NewNotPredicate(p)]
       ELSE [err |-> "parsing error", predicate |-> NewTruePredicate]

\* Tx.getPredicates on one condition, after the search for a link: the
\* ordinal counter of ? is the one the call started, 1
getCondition(e, cond, schema, tableName, args, aliases) ==
    LET qualified == cond.decl[1].token \notin OperatorTokens
        children == IF qualified THEN Tail(cond.decl) ELSE cond.decl
        fromTableName == getAlias(IF qualified THEN cond.decl[1].lexeme ELSE tableName,
                                  aliases)
        pLeftValue == cond.lexeme
        found == TransactionRelationAttribute(e, schema, fromTableName, pLeftValue)
        odbcIdx == 1
    IN IF found.err # NoErr THEN [err |-> found.err, predicate |-> NewTruePredicate]
       ELSE IF children[1].token = "IsToken"
       THEN isExecutor(fromTableName, pLeftValue, children[1])
       ELSE IF Len(children) < 2
       THEN [err |-> "Malformed predicate", predicate |-> NewTruePredicate]
       ELSE LET op == children[1]
                rightS == children[2]
                left == NewAttributeValueFunctor(fromTableName, pLeftValue)
                idx == IF rightS.lexeme = "?" THEN [err |-> NoErr, n |-> odbcIdx]
                       ELSE ParseInt(rightS.lexeme)
            IN IF rightS.token = "ArgToken" /\ idx.err # NoErr
               THEN [err |-> idx.err, predicate |-> NewTruePredicate]
               ELSE IF rightS.token = "ArgToken" /\ Len(args) <= idx.n - 1
               THEN [err |-> "reference to argument not provided",
                     predicate |-> NewTruePredicate]
               ELSE IF /\ rightS.token = "NamedArgToken"
                       /\ \A k \in DOMAIN args : args[k].name # rightS.lexeme
               THEN [err |-> "no named argument found", predicate |-> NewTruePredicate]
               ELSE IF op.token \notin {"EqualityToken", "DistinctnessToken"}
               THEN [err |-> "unknown comparison token", predicate |-> NewTruePredicate]
               ELSE [err |-> NoErr,
                     predicate |->
                         NewComparisonPredicate(
                             left,
                             IF op.token = "EqualityToken" THEN "Eq" ELSE "Neq",
                             NewConstValueFunctor(
                                 IF rightS.token = "ArgToken" THEN args[idx.n].value
                                 ELSE IF rightS.token = "NamedArgToken"
                                 THEN FirstNamed(args, rightS.lexeme)
                                 ELSE ToInstance(rightS.lexeme)))]

\* Tx.getPredicates on the children of WHERE: the list is cut at its first
\* link, and Tx.and / Tx.or join the predicates of the two parts
RECURSIVE TxgetPredicates(_, _, _, _, _, _)
TxgetPredicates(e, decl, schema, fromTableName, args, aliases) ==
    LET links == {i \in DOMAIN decl : decl[i].token \in {"AndToken", "OrToken"}}
    IN IF links = {}
       THEN getCondition(e, decl[1], schema, fromTableName, args, aliases)
       ELSE LET i == CHOOSE k \in links : \A j \in links : k <= j
                left == SubSeq(decl, 1, i - 1)
                right == SubSeq(decl, i + 1, Len(decl))
            IN IF i = Len(decl)
               THEN [err |-> "query error: link not followed by any predicate",
                     predicate |-> NewTruePredicate]
               ELSE IF Len(left) = 0
               THEN [err |-> "no predicate before link", predicate |-> NewTruePredicate]
               ELSE LET lp == TxgetPredicates(e, left, schema, fromTableName, args, aliases)
                        rp == TxgetPredicates(e, right, schema, fromTableName, args, aliases)
                    IN IF lp.err # NoErr THEN lp
                       ELSE IF rp.err # NoErr THEN rp
                       ELSE [err |-> NoErr,
                             predicate |-> IF decl[i].token = "AndToken"
                                           THEN NewAndPredicate(lp.predicate, rp.predicate)
                                           ELSE NewOrPredicate(lp.predicate, rp.predicate)]

\* Tx.getSelector, the case of a column without qualifier from table k on:
\* the first table that has the column
RECURSIVE getSelectorAmong(_, _, _, _, _, _)
getSelectorAmong(e, attribute, schema, tables, aliases, k) ==
    LET found == TransactionRelationAttribute(e, schema, getAlias(tables[k], aliases),
                                              attribute)
    IN IF found.err = NoErr
       THEN [err |-> NoErr, selector |-> NewAttributeSelector(tables[k], attribute)]
       ELSE IF k = Len(tables)
       THEN [err |-> found.err, selector |-> NewConstSelector("", "")]
       ELSE getSelectorAmong(e, attribute, schema, tables, aliases, k + 1)

\* Tx.getSelector of one select item: [err, selector]
getSelector(e, item, schema, tables, aliases, name) ==
    LET relation == IF Len(tables) > 0 THEN tables[1] ELSE ""
    IN CASE item.token = "CurrentDatabaseToken" ->
              [err |-> NoErr, selector |-> NewConstSelector(relation, name)]
         [] item.token = "NumberToken" ->
              [err |-> NoErr, selector |-> NewConstSelector(relation, item.lexeme)]
         [] item.token = "StarToken" /\ Len(tables) > 0 ->
              [err |-> NoErr, selector |-> NewStarSelector(tables[1])]
         [] item.token = "StringToken" /\ Len(item.decl) > 0 ->
              LET a == getAlias(item.decl[1].lexeme, aliases)
                  found == TransactionRelationAttribute(e, schema, a, item.lexeme)
              IN IF found.err # NoErr
                 THEN [err |-> found.err, selector |-> NewConstSelector(relation, "")]
                 ELSE [err |-> NoErr, selector |-> NewAttributeSelector(a, item.lexeme)]
         [] item.token = "StringToken" /\ Len(item.decl) = 0 /\ Len(tables) = 0 ->
              [err |-> "column does not exist", selector |-> NewConstSelector(relation, "")]
         [] item.token = "StringToken" /\ Len(item.decl) = 0 /\ Len(tables) > 0 ->
              getSelectorAmong(e, item.lexeme, schema, tables, aliases, 1)
         [] OTHER -> [err |-> "cannot handle " \o item.lexeme,
                      selector |-> NewConstSelector(relation, "")]

\* selectExecutor with the OFFSET case left out of the clause loop
RECURSIVE selectSortersNoOffset(_, _, _)
selectSortersNoOffset(clauses, k, sorters) ==
    IF k > Len(clauses) THEN [err |-> NoErr, sorters |-> sorters]
    ELSE LET n == ParseInt(clauses[k].tok.lexeme)
         IN IF n.err # NoErr
            THEN [err |-> "wrong limit value: " \o n.err, sorters |-> <<>>]
            ELSE selectSortersNoOffset(clauses, k + 1,
                     IF clauses[k].kw = "OffsetToken" THEN sorters
                     ELSE Append(sorters, NewLimitSorter(n.n)))

\* selectExecutor, the clause loop from child k on: one sorter per LIMIT or
\* OFFSET child, appended in the order of the children
RECURSIVE selectSorters(_, _, _)
selectSorters(clauses, k, sorters) ==
    IF k > Len(clauses) THEN [err |-> NoErr, sorters |-> sorters]
    ELSE LET n == ParseInt(clauses[k].tok.lexeme)
         IN IF n.err # NoErr
            THEN [err |-> (IF clauses[k].kw = "OffsetToken" THEN "wrong offset value: "
                           ELSE "wrong limit value: ") \o n.err,
                  sorters |-> <<>>]
            ELSE selectSorters(clauses, k + 1,
                     Append(sorters, IF clauses[k].kw = "OffsetToken"
                                     THEN NewOffsetSorter(n.n) ELSE NewLimitSorter(n.n)))

\* Tx.getDistinctSorter: the attributes of ON when there are any, the
\* attribute that follows the DISTINCT child otherwise
getDistinctSorter(rel, decl, nextAttr) ==
    NewDistinctSorter(rel, IF Len(decl.decl) > 0
                           THEN [k \in DOMAIN decl.decl |-> decl.decl[k].lexeme]
                           ELSE <<nextAttr>>)

\* selectExecutor: [err, rows]; the children FROM, WHERE, LIMIT / OFFSET in
\* turn, then the select items; without WHERE the predicate is the true one
selectExecutor(e, name, decl, args) ==
    LET sel == getSelectedTables(decl.from)
        where == IF Len(decl.where) = 0 THEN [err |-> NoErr, predicate |-> NewTruePredicate]
                 ELSE TxgetPredicates(e, decl.where, sel.schema, sel.tables[1], args,
                                      sel.aliases)
        sorters == selectSorters(decl.clauses, 1, <<>>)
        distinct == [i \in DOMAIN decl.distinct |->
                        getDistinctSorter("", decl.distinct[i], decl.items[1].lexeme)]
        got == [i \in DOMAIN decl.items |->
                   getSelector(e, decl.items[i], sel.schema, sel.tables, sel.aliases, name)]
    IN IF where.err # NoErr THEN [err |-> where.err, rows |-> <<>>]
       ELSE IF sorters.err # NoErr THEN [err |-> sorters.err, rows |-> <<>>]
       ELSE IF \E i \in DOMAIN got : got[i].err # NoErr
       THEN [err |-> got[CHOOSE i \in DOMAIN got : got[i].err # NoErr].err, rows |-> <<>>]
       ELSE TransactionQuery(e, sel.schema, sel.tables, [i \in DOMAIN got |-> got[i].selector],
                             where.predicate, distinct \o sorters.sorters)

\* Tx.QueryContext: parse, then the executor of the statement
TxQueryContext(e, name, q) ==
    LET parsed == parseSelect(q)
    IN IF parsed.err # NoErr THEN [err |-> parsed.err, rows |-> <<>>]
       ELSE selectExecutor(e, name, parsed.decl, NamedValues(q))

\* C18: DROP TABLE categories while controls, whose foreign key references
\* categories, exists is rejected with an error and leaves the engine (both
\* relations) unchanged; once controls is gone it succeeds and removes
\* categories; DROP TABLE controls, which nothing references, succeeds and
\* leaves categories as it is
C18_DropReferenced ==
    [][/\ (Executes("dropTable", "categories") /\ HasRelation(engine, "", "categories")) =>
              IF HasRelation(engine, "", "controls")
              THEN last'.err # NoErr /\ engine' = engine
              ELSE last'.err = NoErr /\ ~HasRelation(engine', "", "categories")
       /\ (Executes("dropTable", "controls") /\ HasRelation(engine, "", "controls")) =>
              /\ last'.err = NoErr
              /\ ~HasRelation(engine', "", "controls")
              /\ HasRelation(engine, "", "categories") =>
                    /\ HasRelation(engine', "", "categories")
                    /\ GetRelation(engine', "", "categories")
                          = GetRelation(engine, "", "categories")]_vars

\* DROP TABLE categories was rejected while controls held a row referencing
\* a categories row
C18_Witness ==
    /\ last.op = "dropTable" /\ last.stmt.relation = "categories"
    /\ last.err # NoErr
    /\ HasRelation(engine, "", "categories") /\ HasRelation(engine, "", "controls")
    /\ HasParent(engine, "a", "x") /\ HasChild(engine, "a", "x")

(***************************************************************************)
(* The third specification: the LIMIT tests' table items(id TEXT PRIMARY   *)
(* KEY), filled and emptied by one caller who also queries it.  A query    *)
(* leaves the engine and the transaction as they are; its rows are kept    *)
(* in last.                                                                *)
(***************************************************************************)
MaxItems == 3

ItemIds == {"id1", "id2", "id3"}

DbNames == {"mydb", "TestCurrentDatabase"}

ItemsDecl == TableDecl(<<ColumnDecl("id", "text", TRUE, FALSE, <<>>)>>, <<>>, <<>>)

CreateItems ==
    Statement("createTable", "", "items", <<>>, <<>>, NoWhere, FALSE, FALSE, <<ItemsDecl>>, <<>>)

\* INSERT INTO items (id) VALUES ($1); DELETE FROM items WHERE id = ...;
\* DROP TABLE items; CREATE TABLE items (id TEXT PRIMARY KEY)
ItemStmts ==
    {InsertStmt("items", <<"id">>, <<<<"$1">>>>, <<i>>) : i \in ItemIds}
    \cup {DeleteStmt("items", NewEqPredicates(<<"id">>, <<i>>), TRUE) : i \in ItemIds}
    \cup {Statement("dropTable", "", "items", <<>>, <<>>, NoWhere, FALSE, FALSE, <<>>, <<>>),
          CreateItems}

Star == <<Token("StarToken", "*")>>

Limit(tok) == [kw |-> "LimitToken", tok |-> tok]

Offset(tok) == [kw |-> "OffsetToken", tok |-> tok]

Literals == {Token("NumberToken", x) : x \in {"0", "1", "2", "5"}}

\* SELECT * FROM items [LIMIT n] [OFFSET m], the clauses in either order
LiteralQueries ==
    {Query(Star, <<"items">>, <<>>, <<>>)}
    \cup {Query(Star, <<"items">>, <<Limit(n)>>, <<>>) : n \in Literals}
    \cup {Query(Star, <<"items">>, <<Offset(m)>>, <<>>) : m \in Literals}
    \cup {Query(Star, <<"items">>, <<Limit(n), Offset(m)>>, <<>>) : n, m \in Literals}
    \cup {Query(Star, <<"items">>, <<Offset(m), Limit(n)>>, <<>>) : n, m \in Literals}

\* SELECT * FROM items LIMIT $1 [OFFSET $2] and OFFSET $1, with integer arguments
ParameterQueries ==
    {Query(Star, <<"items">>, <<Limit(Token("ArgToken", "1"))>>, <<n>>) : n \in 1..2}
    \cup {Query(Star, <<"items">>, <<Offset(Token("ArgToken", "1"))>>, <<m>>) : m \in 1..2}
    \cup {Query(Star, <<"items">>,
                <<Limit(Token("ArgToken", "1")), Offset(Token("ArgToken", "2"))>>,
                <<n, m>>) : n, m \in 1..2}

\* SELECT 1 and SELECT CURRENT_DATABASE()
NoFromQueries ==
    {Query(<<Token("NumberToken", "1")>>, <<>>, <<>>, <<>>),
     Query(<<Token("CurrentDatabaseToken", "current_database()")>>, <<>>, <<>>, <<>>)}

InitSelect ==
    /\ engine = TxExecContext(NewEngine, <<CreateItems>>).engine
    /\ tx = NoTx
    /\ snapshot = engine
    /\ last = Last("open", NoErr, 0, NoStmt, 0)
    /\ mutex = FALSE
    /\ dbName \in DbNames
    /\ callers = <<>>
    /\ order = <<>>
    /\ driver = <<>>

\* the state after QueryContext returned r for q
Queried(q, r) ==
    /\ last' = [op |-> "query", err |-> r.err, affected |-> 0, stmt |-> q,
                log |-> Len(tx.changes), rows |-> r.rows]
    /\ UNCHANGED <<engine, tx, snapshot, mutex, others>>

\* a query may be made: the transaction is open
CanQuery == tx.open

\* Tx.QueryContext
QueryCall(q) == Queried(q, TxQueryContext(engine, dbName, q))

ExecItems == \E stmt \in ItemStmts :
                 /\ CanExec
                 /\ stmt.kind = "insert" => RowsOf("items") < MaxItems
                 /\ Exec(stmt)

QueryLiteral == \E q \in LiteralQueries : CanQuery /\ QueryCall(q)

QueryParameter == \E q \in ParameterQueries : CanQuery /\ QueryCall(q)

QueryNoFrom == \E q \in NoFromQueries : CanQuery /\ QueryCall(q)

NextSelect ==
    \/ Begin
    \/ ExecItems
    \/ QueryLiteral
    \/ QueryParameter
    \/ QueryNoFrom
    \/ Commit
    \/ Rollback

SpecSelect == InitSelect /\ [][NextSelect]_vars

\* the rows of items, <<>> when the table is dropped
Items == IF HasRelation(engine, "", "items") THEN GetRelation(engine, "", "items").rows ELSE <<>>

\* rows m+1 .. m+n of rows, as many of them as there are
Window(rows, n, m) ==
    [k \in 1..(IF Len(rows) - m < 0 THEN 0
               ELSE IF n < Len(rows) - m THEN n ELSE Len(rows) - m) |-> rows[m + k]]

\* the number after keyword kw in the clauses, absent when kw is not written
ClauseNumber(q, kw, absent) ==
    IF \E k \in DOMAIN q.clauses : q.clauses[k].kw = kw
    THEN LET tok == q.clauses[CHOOSE k \in DOMAIN q.clauses : q.clauses[k].kw = kw].tok
         IN IF tok.token = "ArgToken" THEN q.args[ParseInt(tok.lexeme).n]
            ELSE ParseInt(tok.lexeme).n
    ELSE absent

\* the last call is a query of items by a statement of the set qs
Asked(qs) == last.op = "query" /\ last.stmt \in qs /\ HasRelation(engine, "", "items")

\* C11: SELECT * FROM items with LIMIT n and OFFSET m given as literals
\* (either optional, LIMIT 0 and n beyond the row count included) returns
\* min(n, max(total - m, 0)) rows: the rows m+1 .. m+n of the insertion order
C11_LimitOffsetRows ==
    Asked(LiteralQueries) =>
        LET n == ClauseNumber(last.stmt, "LimitToken", Len(Items))
            m == ClauseNumber(last.stmt, "OffsetToken", 0)
            least(a, b) == IF a < b THEN a ELSE b
        IN /\ last.err = NoErr
           /\ Len(last.rows) = least(n, IF Len(Items) - m > 0 THEN Len(Items) - m ELSE 0)
           /\ last.rows = Window(Items, n, m)

\* LIMIT 2 OFFSET 2 over three rows returned the third row only
C11_Witness ==
    /\ Asked(LiteralQueries)
    /\ Len(last.stmt.clauses) = 2
    /\ ClauseNumber(last.stmt, "LimitToken", 0) = 2
    /\ ClauseNumber(last.stmt, "OffsetToken", 0) = 2
    /\ Len(Items) = 3
    /\ last.rows = <<Items[3]>>

C13_ParameterLimitOffset ==
    Asked(ParameterQueries) =>
        /\ last.err = NoErr
        /\ last.rows = Window(Items, ClauseNumber(last.stmt, "LimitToken", Len(Items)),
                              ClauseNumber(last.stmt, "OffsetToken", 0))

UpsertDecl ==
    TableDecl(<<ColumnDecl("id", "text", TRUE, FALSE, <<>>),
                ColumnDecl("v", "text", FALSE, FALSE, <<>>)>>, <<>>, <<>>)

CreateUpsert ==
    Statement("createTable", "", "t", <<>>, <<>>, NoWhere, FALSE, FALSE, <<UpsertDecl>>, <<>>)

Vs == {"a", "b"}

\* INSERT INTO t (id, v) VALUES ...: one list of literals, one list of
\* parameters, two lists of literals
UpsertInserts ==
    {InsertStmt("t", <<"id", "v">>, <<<<i, x>>>>, <<>>) : i \in Ids, x \in Vs}
    \cup {InsertStmt("t", <<"id", "v">>, <<<<"$1", "$2">>>>, <<i, x>>) : i \in Ids, x \in Vs}
    \cup {InsertStmt("t", <<"id", "v">>, <<<<"1", x>>, <<i, y>>>>, <<>>) :
             i \in Ids, x \in Vs, y \in Vs}

\* ... ON CONFLICT (id) DO UPDATE SET v = excluded.v
DoUpdateStmts ==
    {OnConflict(stmt, <<"id">>, "update",
                <<[col |-> "v", value |-> [lexeme |-> "v", table |-> "excluded"]]>>) :
        stmt \in UpsertInserts}

\* ... ON CONFLICT (id) DO NOTHING
DoNothingStmts == {OnConflict(stmt, <<"id">>, "nothing", <<>>) : stmt \in UpsertInserts}

\* INSERT INTO t (id, v) VALUES (i, x) and DELETE FROM t WHERE id = i
PlainStmts ==
    {InsertStmt("t", <<"id", "v">>, <<<<i, x>>>>, <<>>) : i \in Ids, x \in Vs}
    \cup {DeleteStmt("t", NewEqPredicates(<<"id">>, <<i>>), TRUE) : i \in Ids}

InitUpsert ==
    /\ engine = TxExecContext(NewEngine, <<CreateUpsert>>).engine
    /\ tx = NoTx
    /\ snapshot = engine
    /\ last = Last("open", NoErr, 0, NoStmt, 0)
    /\ Single

ExecDoUpdate == \E stmt \in DoUpdateStmts : CanExec /\ Exec(stmt)

ExecDoNothing == \E stmt \in DoNothingStmts : CanExec /\ Exec(stmt)

ExecPlain == \E stmt \in PlainStmts : CanExec /\ Exec(stmt)

NextUpsert ==
    \/ Begin
    \/ ExecDoUpdate
    \/ ExecDoNothing
    \/ ExecPlain
    \/ Commit
    \/ Rollback

SpecUpsert == InitUpsert /\ [][NextUpsert]_vars

\* the row <<id, v>> value list k of stmt proposes
Proposed(stmt, k) ==
    [c \in 1..2 |-> IF IsArgToken(stmt.lists[k][c]) THEN stmt.args[ArgNumber(stmt.lists[k][c])]
                    ELSE stmt.lists[k][c]]

\* the positions of the rows holding the key id
Holding(rows, id) == {i \in DOMAIN rows : rows[i][1] = id}

\* rows after the proposed row p is upserted: v of the row holding p's key
\* set to p's v, or p appended when no row holds the key
Upserted(rows, p) ==
    IF Holding(rows, p[1]) # {}
    THEN [i \in DOMAIN rows |-> IF rows[i][1] = p[1] THEN <<rows[i][1], p[2]>> ELSE rows[i]]
    ELSE Append(rows, p)

\* rows after the proposed row p is inserted unless its key is held
Ignored(rows, p) == IF Holding(rows, p[1]) # {} THEN rows ELSE Append(rows, p)

\* the value lists of stmt from list k on, upserted in turn
RECURSIVE UpsertedFrom(_, _, _)
UpsertedFrom(rows, stmt, k) ==
    IF k > Len(stmt.lists) THEN rows
    ELSE UpsertedFrom(Upserted(rows, Proposed(stmt, k)), stmt, k + 1)

RECURSIVE IgnoredFrom(_, _, _)
IgnoredFrom(rows, stmt, k) ==
    IF k > Len(stmt.lists) THEN rows
    ELSE IgnoredFrom(Ignored(rows, Proposed(stmt, k)), stmt, k + 1)

\* the step executes an INSERT on t with the ON CONFLICT branch do
ExecutesConflict(do) ==
    /\ Executes("insert", "t")
    /\ HasOnConflict(Stmt)
    /\ Stmt.conflict.do = do

\* C15: INSERT ... ON CONFLICT (id) DO UPDATE SET v = excluded.v succeeds;
\* a proposed row whose key a row holds is not inserted and sets that row's
\* v to its own (the row count is unchanged and one row holds the key), a
\* proposed row whose key no row holds is inserted
C15_DoUpdate ==
    [][ExecutesConflict("update") =>
        /\ last'.err = NoErr
        /\ After("t") = UpsertedFrom(Before("t"), Stmt, 1)
        /\ \A k \in DOMAIN Stmt.lists :
              Cardinality(Holding(After("t"), Proposed(Stmt, k)[1])) = 1
        /\ (Len(Stmt.lists) = 1 /\ Holding(Before("t"), Proposed(Stmt, 1)[1]) # {}) =>
              /\ Len(After("t")) = Len(Before("t"))
              /\ \E i \in DOMAIN After("t") : After("t")[i] = Proposed(Stmt, 1)]_vars

\* the only statement of the transaction, a DO UPDATE proposing ("1", "a"),
\* turned the row ("1", "b") held at begin into ("1", "a")
C15_Witness ==
    /\ last.op = "insert" /\ HasOnConflict(last.stmt) /\ last.stmt.conflict.do = "update"
    /\ tx.open /\ tx.stmts = 1
    /\ Len(last.stmt.lists) = 1 /\ Proposed(last.stmt, 1) = <<"1", "a">>
    /\ last.err = NoErr
    /\ RowsIn(snapshot, "t") = <<<<"2", "b">>, <<"1", "b">>>>
    /\ RowsIn(engine, "t") = <<<<"2", "b">>, <<"1", "a">>>>

\* the number of proposed rows of stmt, from list k on, whose key is not held
RECURSIVE InsertedFrom(_, _, _)
InsertedFrom(rows, stmt, k) ==
    IF k > Len(stmt.lists) THEN 0
    ELSE (IF Holding(rows, Proposed(stmt, k)[1]) # {} THEN 0 ELSE 1)
         + InsertedFrom(Ignored(rows, Proposed(stmt, k)), stmt, k + 1)

\* C16: INSERT ... ON CONFLICT (id) DO NOTHING returns no error, skips every
\* proposed row whose key is held and inserts the others; the rows held
\* before and their index entries stay, rows affected counts the inserted
\* rows only, and when every proposed row conflicts the engine is unchanged
C16_DoNothing ==
    [][ExecutesConflict("nothing") =>
        LET r == GetRelation(engine, "", "t")
            q == GetRelation(engine', "", "t")
        IN /\ last'.err = NoErr
           /\ After("t") = IgnoredFrom(Before("t"), Stmt, 1)
           /\ SubSeq(After("t"), 1, Len(Before("t"))) = Before("t")
           /\ \A i \in DOMAIN r.indexes : r.indexes[i].entries \sqsubseteq q.indexes[i].entries
           /\ last'.affected = InsertedFrom(Before("t"), Stmt, 1)
           /\ last'.affected = Len(After("t")) - Len(Before("t"))
           /\ (\A k \in DOMAIN Stmt.lists : Holding(Before("t"), Proposed(Stmt, k)[1]) # {})
                 => (engine' = engine /\ last'.affected = 0)]_vars

\* the only statement of the transaction, a DO NOTHING proposing ("1", "a")
\* over the row ("1", "b"), affected no row and left the engine as it was
C16_Witness ==
    /\ last.op = "insert" /\ HasOnConflict(last.stmt) /\ last.stmt.conflict.do = "nothing"
    /\ tx.open /\ tx.stmts = 1
    /\ Len(last.stmt.lists) = 1 /\ Proposed(last.stmt, 1) = <<"1", "a">>
    /\ last.err = NoErr /\ last.affected = 0
    /\ RowsIn(snapshot, "t") = <<<<"1", "b">>>>
    /\ engine = snapshot

(***************************************************************************)
(* The fifth specification: the table products(id BIGSERIAL PRIMARY KEY,   *)
(* name TEXT), written by one caller with INSERTs that leave id out, give  *)
(* it as DEFAULT or give it explicitly, and with UPDATE, DELETE and        *)
(* TRUNCATE.                                                               *)
(***************************************************************************)
MaxSerial == 3

ProductsDecl ==
    TableDecl(<<ColumnDecl("id", "bigserial", TRUE, FALSE, <<>>),
                ColumnDecl("name", "text", FALSE, FALSE, <<>>)>>, <<>>, <<>>)

CreateProducts ==
    Statement("createTable", "", "products", <<>>, <<>>, NoWhere, FALSE, FALSE,
              <<ProductsDecl>>, <<>>)

ProductNames == {"w", "g"}

\* INSERT INTO products (name) VALUES (n);
\* INSERT INTO products (id, name) VALUES (DEFAULT, n)
SerialInserts ==
    {InsertStmt("products", <<"name">>, <<<<n>>>>, <<>>) : n \in ProductNames}
    \cup {InsertStmt("products", <<"id", "name">>, <<<<"DEFAULT", n>>>>, <<>>) :
             n \in ProductNames}

\* INSERT INTO products (id, name) VALUES (i, n)
ExplicitInserts ==
    {InsertStmt("products", <<"id", "name">>, <<<<i, n>>>>, <<>>) :
        i \in {"1", "3"}, n \in ProductNames}

\* UPDATE products SET name = n WHERE name = m; UPDATE products SET id = '3'
\* WHERE id = '1'; DELETE FROM products WHERE name = n; DELETE FROM products;
\* TRUNCATE products
OtherProductStmts ==
    {UpdateStmt("products", <<"name">>, <<n>>, NewEqPredicates(<<"name">>, <<m>>)) :
        n \in ProductNames, m \in ProductNames}
    \cup {UpdateStmt("products", <<"id">>, <<"3">>, NewEqPredicates(<<"id">>, <<"1">>))}
    \cup {DeleteStmt("products", NewEqPredicates(<<"name">>, <<n>>), TRUE) : n \in ProductNames}
    \cup {DeleteStmt("products", NoWhere, FALSE),
          Statement("truncate", "", "products", <<>>, <<>>, NoWhere, FALSE, FALSE, <<>>, <<>>)}

\* the counter of products.id
SerialCounter(e) == GetRelation(e, "", "products").attributes[1].nextValue

InitSerial ==
    /\ engine = TxExecContext(NewEngine, <<CreateProducts>>).engine
    /\ tx = NoTx
    /\ snapshot = engine
    /\ last = Last("open", NoErr, 0, NoStmt, 0)
    /\ Single

ExecSerialInsert == \E stmt \in SerialInserts :
                        /\ CanExec
                        /\ SerialCounter(engine) <= MaxSerial
                        /\ RowsOf("products") < MaxRows
                        /\ Exec(stmt)

ExecExplicitInsert == \E stmt \in ExplicitInserts :
                          /\ CanExec
                          /\ RowsOf("products") < MaxRows
                          /\ Exec(stmt)

ExecOtherProduct == \E stmt \in OtherProductStmts : CanExec /\ Exec(stmt)

NextSerial ==
    \/ Begin
    \/ ExecSerialInsert
    \/ ExecExplicitInsert
    \/ ExecOtherProduct
    \/ Commit
    \/ Rollback

SpecSerial == InitSerial /\ [][NextSerial]_vars

\* stmt is an INSERT that leaves id out or gives it as DEFAULT
OmitsId(stmt) ==
    /\ stmt.kind = "insert"
    /\ \A k \in DOMAIN stmt.cols : stmt.cols[k] = "id" => IsDefaultToken(stmt.lists[1][k])

\* the name stmt proposes
ProposedName(stmt) == stmt.lists[1][CHOOSE k \in DOMAIN stmt.cols : stmt.cols[k] = "name"]

\* C17: the counter of products.id starts at 1 and never decreases; an
\* INSERT that leaves id out or gives DEFAULT succeeds when no row holds the
\* counter's value, and a successful one stores the counter's value as id
\* and advances the counter by one, so the values assigned are 1 and then
\* strictly increasing; no other step (an INSERT that gives id, UPDATE,
\* DELETE, TRUNCATE, begin, commit, rollback) moves the counter
C17_Serial ==
    /\ SerialCounter(engine) = 1
    /\ [][LET c == SerialCounter(engine)
              d == SerialCounter(engine')
          IN /\ d >= c
             /\ (Executes("insert", "products") /\ OmitsId(Stmt)) =>
                   /\ Holding(Before("products"), Itoa(c)) = {} => last'.err = NoErr
                   /\ last'.err = NoErr =>
                         /\ After("products")
                               = Append(Before("products"), <<Itoa(c), ProposedName(Stmt)>>)
                         /\ d = c + 1
             /\ ~(Executes("insert", "products") /\ OmitsId(Stmt)) => d = c]_vars

\* an INSERT that gave id 3 left the counter at 1, and the INSERT without id
\* after it took 1 and moved the counter to 2
C17_Witness ==
    /\ last.op = "insert" /\ OmitsId(last.stmt) /\ last.err = NoErr
    /\ RowsIn(engine, "products") = <<<<"3", "w">>, <<"1", "g">>>>
    /\ SerialCounter(engine) = 2

(***************************************************************************)
(* The sixth specification: NCallers concurrent callers of one engine, as  *)
(* in the concurrent LIMIT test.  items holds ConcItems rows.  Each caller *)
(* runs one transaction: it calls begin, waits for the engine's mutex,     *)
(* executes up to MaxStmts statements, each either INSERT INTO items (id)  *)
(* VALUES ($1) with the one new id or SELECT * FROM items LIMIT k with k   *)
(* the caller's own number, and commits or rolls back.                     *)
(*   callers[c]  pc ("idle", "waiting", "open", "done"), the change log of *)
(*               its transaction, the statements it executed with their    *)
(*               outcomes, and how it ended                                *)
(*   order       the callers in the order they obtained their transaction  *)
(*   snapshot    the engine before any caller began                        *)
(***************************************************************************)
NCallers == 3

CallerIds == 1..NCallers

ConcItems == NCallers + 1

NewId == "new"

\* the engine of the test: items created and filled with the ids 1 .. ConcItems
ConcEngine ==
    TxExecContext(NewEngine,
                  <<CreateItems>>
                  \o [i \in 1..ConcItems |->
                         InsertStmt("items", <<"id">>, <<<<"$1">>>>, <<Itoa(i)>>)]).engine

ConcInsert == InsertStmt("items", <<"id">>, <<<<"$1">>>>, <<NewId>>)

\* SELECT * FROM items LIMIT k
ConcQuery(k) == Query(Star, <<"items">>, <<Limit(Token("NumberToken", Itoa(k)))>>, <<>>)

NewCaller == [pc |-> "idle", changes |-> <<>>, log |-> <<>>, end |-> ""]

\* a statement of a caller's transaction with its outcome
Entry(stmt, err, rows) == [stmt |-> stmt, err |-> err, rows |-> rows]

InitConc ==
    /\ engine = ConcEngine
    /\ tx = NoTx
    /\ snapshot = engine
    /\ last = Last("open", NoErr, 0, NoStmt, 0)
    /\ mutex = FALSE
    /\ dbName = "TestLimitConcurrent"
    /\ callers = [c \in CallerIds |-> NewCaller]
    /\ order = <<>>
    /\ driver = <<>>

\* what the callers' steps leave alone
single == <<tx, snapshot, last, dbName, driver>>

\* caller c calls begin and waits for the mutex
Called(c) ==
    /\ callers' = [callers EXCEPT ![c].pc = "waiting"]
    /\ UNCHANGED <<engine, mutex, order, single>>

\* Engine.Begin returns caller c its transaction
Acquired(c) ==
    /\ EngineBegin(mutex).ok
    /\ mutex' = EngineBegin(mutex).mutex
    /\ callers' = [callers EXCEPT ![c].pc = "open"]
    /\ order' = Append(order, c)
    /\ UNCHANGED <<engine, single>>

\* caller c may execute a statement
CanStep(c) == callers[c].pc = "open" /\ Len(callers[c].log) < MaxStmts

\* Tx.ExecContext of the INSERT in caller c's transaction
Inserted(c, r) ==
    /\ engine' = r.engine
    /\ callers' = [callers EXCEPT ![c].changes = @ \o r.changes,
                                  ![c].log = Append(@, Entry(ConcInsert, r.err, <<>>))]
    /\ UNCHANGED <<mutex, order, single>>

\* Tx.QueryContext of SELECT * FROM items LIMIT c in caller c's transaction
Selected(c, r) ==
    /\ callers' = [callers EXCEPT ![c].log = Append(@, Entry(ConcQuery(c), r.err, r.rows))]
    /\ UNCHANGED <<engine, mutex, order, single>>

\* the state after caller c's Commit or Rollback returned r
Ended(c, end, r) ==
    /\ engine' = r.engine
    /\ mutex' = r.mutex
    /\ callers' = [callers EXCEPT ![c].pc = "done", ![c].end = end]
    /\ UNCHANGED <<order, single>>

CallBegin == \E c \in CallerIds : callers[c].pc = "idle" /\ Called(c)

Acquire == \E c \in CallerIds : callers[c].pc = "waiting" /\ Acquired(c)

CallerInsert == \E c \in CallerIds :
                    CanStep(c) /\ Inserted(c, TxExecContext(engine, <<ConcInsert>>))

CallerQuery == \E c \in CallerIds :
                   CanStep(c) /\ Selected(c, TxQueryContext(engine, dbName, ConcQuery(c)))

CallerCommit == \E c \in CallerIds :
                    callers[c].pc = "open"
                    /\ Ended(c, "commit", TxCommit(engine, callers[c].changes))

CallerRollback == \E c \in CallerIds :
                      callers[c].pc = "open"
                      /\ Ended(c, "rollback", TxRollback(engine, callers[c].changes))

NextConc ==
    \/ CallBegin
    \/ Acquire
    \/ CallerInsert
    \/ CallerQuery
    \/ CallerCommit
    \/ CallerRollback

SpecConc == InitConc /\ [][NextConc]_vars

\* The same callers under the scheduling the claims of progress assume: a
\* caller waiting for the mutex obtains it once it stays free (sync.Mutex
\* hands a free mutex to a waiter), and a caller holding a transaction
\* eventually commits or rolls back.
SpecConcFair ==
    /\ SpecConc
    /\ \A c \in CallerIds :
          /\ WF_vars(callers[c].pc = "waiting" /\ Acquired(c))
          /\ WF_vars(callers[c].pc = "open"
                     /\ (\/ Ended(c, "commit", TxCommit(engine, callers[c].changes))
                         \/ Ended(c, "rollback", TxRollback(engine, callers[c].changes))))

\* The transaction of a caller run alone on engine e: the statements of its
\* log from k on, then its end.  [engine, same]: the engine after it, and
\* whether every statement had the outcome the log records.
RECURSIVE Rerun(_, _, _, _, _, _)
Rerun(e, c, log, end, k, changes) ==
    IF k > Len(log)
    THEN [engine |-> IF end = "rollback" THEN TxRollback(e, changes).engine ELSE e,
          same |-> TRUE]
    ELSE IF log[k].stmt.kind = "select"
    THEN LET r == TxQueryContext(e, dbName, log[k].stmt)
             rest == Rerun(e, c, log, end, k + 1, changes)
         IN [rest EXCEPT !.same = @ /\ r.err = log[k].err /\ r.rows = log[k].rows]
    ELSE LET r == TxExecContext(e, <<log[k].stmt>>)
             rest == Rerun(r.engine, c, log, end, k + 1, changes \o r.changes)
         IN [rest EXCEPT !.same = @ /\ r.err = log[k].err]

\* the transactions of the callers of ord, from position k on, run one
\* after another on e
RECURSIVE Serial(_, _, _)
Serial(e, ord, k) ==
    IF k > Len(ord) THEN [engine |-> e, same |-> TRUE]
    ELSE LET c == ord[k]
             one == Rerun(e, c, callers[c].log, callers[c].end, 1, <<>>)
             rest == Serial(one.engine, ord, k + 1)
         IN [rest EXCEPT !.same = @ /\ one.same]

Open == {c \in CallerIds : callers[c].pc = "open"}

\* C19: at most one transaction is open at a time, and the mutex is held
\* exactly while one is; every caller that obtained its transaction before
\* the latest one has ended, so the statements of two transactions do not
\* interleave; and the engine and every statement's outcome are those of
\* running the transactions one after another in the order the callers
\* obtained the mutex
C19_Serialized ==
    /\ Cardinality(Open) <= 1
    /\ mutex <=> Open # {}
    /\ \A k \in DOMAIN order : k < Len(order) => callers[order[k]].pc = "done"
    /\ \A c \in CallerIds : callers[c].pc \in {"open", "done"} <=> c \in Range(order)
    /\ Serial(snapshot, order, 1).engine = engine
    /\ Serial(snapshot, order, 1).same

\* all callers are done; the first rolled its INSERT back and the second, which
\* waited for it, inserted the same id and committed
C19_Witness ==
    /\ \A c \in CallerIds : callers[c].pc = "done"
    /\ Len(order) = NCallers
    /\ callers[order[1]].end = "rollback" /\ Len(callers[order[1]].log) = 2
    /\ callers[order[1]].log[1].stmt = ConcInsert /\ callers[order[1]].log[1].err = NoErr
    /\ callers[order[2]].end = "commit"
    /\ callers[order[2]].log = <<Entry(ConcInsert, NoErr, <<>>)>>
    /\ Len(RowsIn(engine, "items")) = ConcItems + 1

\* every query of caller c returned exactly its own c rows, the first c of items
OwnRows(c) ==
    \A k \in DOMAIN callers[c].log :
        callers[c].log[k].stmt.kind = "select" =>
            /\ callers[c].log[k].err = NoErr
            /\ callers[c].log[k].rows = [i \in 1..c |-> <<Itoa(i)>>]

\* C20: provided every open transaction eventually commits or rolls back,
\* every caller waiting on begin eventually obtains its transaction and
\* completes, and each of its SELECT * FROM items LIMIT k has returned
\* exactly its own k rows
C20_Progress ==
    \A c \in CallerIds :
        (callers[c].pc = "waiting") ~> (callers[c].pc = "done" /\ OwnRows(c))

\* all callers have completed, the caller with the largest k first, and each
\* has queried and got its own number of rows
C20_Witness ==
    /\ \A c \in CallerIds :
          /\ callers[c].pc = "done"
          /\ \E k \in DOMAIN callers[c].log :
                /\ callers[c].log[k].stmt.kind = "select"
                /\ Len(callers[c].log[k].rows) = c
    /\ Len(order) = NCallers /\ order[1] = NCallers

\* C25: CREATE TABLE naming a relation that exists fails with "relation
\* already exists", or succeeds when written with IF NOT EXISTS, and either
\* way leaves the engine, so the relation's attributes, rows and indexes,
\* as it was; naming a relation that does not exist it creates it
C25_CreateExisting ==
    [][\A t \in {"categories", "controls"} :
          Executes("createTable", t) =>
              IF HasRelation(engine, "", t)
              THEN /\ last'.err = (IF Stmt.flag THEN NoErr ELSE "relation already exists")
                   /\ engine' = engine
              ELSE last'.err = NoErr => HasRelation(engine', "", t)]_vars

\* CREATE TABLE IF NOT EXISTS categories succeeded while categories held a
\* row, which it still holds
C25_Witness ==
    /\ last.op = "createTable" /\ last.stmt.relation = "categories" /\ last.stmt.flag
    /\ last.err = NoErr
    /\ tx.open /\ engine = snapshot
    /\ HasRelation(engine, "", "categories")
    /\ Len(RowsIn(engine, "categories")) = 1

MaxHandles == 3
Handles == 1..MaxHandles

RegNames == {"TestLimit0", "TestLimit1"}

\* NewEngineWithName: always a new engine over a new store
NewEngineWithName(name) == [memstore |-> NewEngine, dbName |-> name]

\* the driver before any database is opened
NewDriver == [engines |-> <<>>, servers |-> EmptyMap, conns |-> [h \in Handles |-> 0]]

\* a handle on a new engine, registered under the name
DriverOpenNew(d, h, name) ==
    [d EXCEPT !.engines = Append(@, NewEngineWithName(name)),
              !.servers = MapPut(@, name, Len(d.engines) + 1),
              !.conns[h] = Len(d.engines) + 1]

\* open(db_name): the engine registered under the name, a new one when there
\* is none
DriverOpen(d, h, name) ==
    IF name \in DOMAIN d.servers THEN [d EXCEPT !.conns[h] = d.servers[name]]
    ELSE DriverOpenNew(d, h, name)

\* the engine behind handle h and the name it was opened under
EngineOf(d, h) == d.engines[d.conns[h]].memstore
NameOf(d, h) == d.engines[d.conns[h]].dbName

IsOpen(d, h) == d.conns[h] # 0

\* db.Exec through handle h: one transaction around the statement
DriverExec(d, h, stmt) ==
    LET r == TxExecContext(EngineOf(d, h), <<stmt>>)
        end == IF r.err = NoErr THEN TxCommit(r.engine, r.changes)
               ELSE TxRollback(r.engine, r.changes)
    IN [err |-> r.err, affected |-> r.affected,
        driver |-> [d EXCEPT !.engines[d.conns[h]].memstore = end.engine]]

\* db.Query through handle h
DriverQuery(d, h, q) == TxQueryContext(EngineOf(d, h), NameOf(d, h), q)

RegIds == {"id1", "id2"}

\* CREATE TABLE items (id TEXT PRIMARY KEY); INSERT INTO items (id) VALUES
\* ($1); DROP TABLE items
RegStmts ==
    {CreateItems,
     Statement("dropTable", "", "items", <<>>, <<>>, NoWhere, FALSE, FALSE, <<>>, <<>>)}
    \cup {InsertStmt("items", <<"id">>, <<<<"$1">>>>, <<i>>) : i \in RegIds}

SelectItems == Query(Star, <<"items">>, <<>>, <<>>)

InitRegistry ==
    /\ engine = NewEngine
    /\ tx = NoTx
    /\ snapshot = engine
    /\ last = [op |-> "open", handle |-> 0, err |-> NoErr, rows |-> <<>>]
    /\ mutex = FALSE
    /\ dbName = ""
    /\ callers = <<>>
    /\ order = <<>>
    /\ driver = NewDriver

registryFrame == <<engine, tx, snapshot, mutex, dbName, callers, order>>

Opened(h, d) ==
    /\ driver' = d
    /\ last' = [op |-> "open", handle |-> h, err |-> NoErr, rows |-> <<>>]
    /\ UNCHANGED registryFrame

HandleExecuted(h, r) ==
    /\ driver' = r.driver
    /\ last' = [op |-> "exec", handle |-> h, err |-> r.err, rows |-> <<>>]
    /\ UNCHANGED registryFrame

HandleQueried(h, r) ==
    /\ last' = [op |-> "query", handle |-> h, err |-> r.err, rows |-> r.rows]
    /\ UNCHANGED <<driver, registryFrame>>

OpenHandle == \E h \in Handles, name \in RegNames :
                  ~IsOpen(driver, h) /\ Opened(h, DriverOpen(driver, h, name))

ExecHandle == \E h \in Handles, stmt \in RegStmts :
                  IsOpen(driver, h) /\ HandleExecuted(h, DriverExec(driver, h, stmt))

QueryHandle == \E h \in Handles :
                   IsOpen(driver, h) /\ HandleQueried(h, DriverQuery(driver, h, SelectItems))

NextRegistry ==
    \/ OpenHandle
    \/ ExecHandle
    \/ QueryHandle

SpecRegistry == InitRegistry /\ [][NextRegistry]_vars

\* the handles open in the state
OpenHandles(d) == {h \in Handles : IsOpen(d, h)}

\* C21: after every step, two handles opened under the same name are on the
\* same engine state, and a query through a handle returns the rows of that
\* state; a statement executed through a handle leaves the engine behind
\* every handle opened under another name as it was
C21_NamedEngines ==
    [][/\ \A g, h \in OpenHandles(driver') :
             NameOf(driver', g) = NameOf(driver', h) =>
                 EngineOf(driver', g) = EngineOf(driver', h)
       /\ last'.op = "query" =>
             \A g \in OpenHandles(driver) :
                 NameOf(driver, g) = NameOf(driver, last'.handle) =>
                     last'.rows = DriverQuery(driver, g, SelectItems).rows
       /\ last'.op = "exec" =>
             \A g \in OpenHandles(driver) :
                 NameOf(driver, g) # NameOf(driver, last'.handle) =>
                     EngineOf(driver', g) = EngineOf(driver, g)]_vars

\* items exists under both names with different rows, and two handles share
\* the engine of one name: a query through one has returned the row that was
\* inserted through the engine they share
C21_Witness ==
    /\ \E g, h \in OpenHandles(driver) :
          /\ g # h
          /\ NameOf(driver, g) = NameOf(driver, h)
          /\ last.op = "query" /\ last.handle = g
          /\ last.rows = <<<<"id1">>>>
    /\ \E g \in OpenHandles(driver) :
          /\ HasRelation(EngineOf(driver, g), "", "items")
          /\ RowsIn(EngineOf(driver, g), "items") = <<>>

(***************************************************************************)
(* The eighth specification: one transaction over t(id TEXT PRIMARY KEY,   *)
(* v TEXT) whose statements come one per ExecContext call or two in one    *)
(* text, with SELECT * FROM t between them.                                *)
(***************************************************************************)
\* UPDATE t SET v = x WHERE id = i
UpdateTStmts ==
    {UpdateStmt("t", <<"v">>, <<x>>, NewEqPredicates(<<"id">>, <<i>>)) : i \in Ids, x \in Vs}

\* the statements that come first in a text
FirstStmts == PlainStmts \cup UpdateTStmts

\* the statements that come second: the same, or an INSERT of one list with
\* ON CONFLICT
SecondStmts ==
    FirstStmts
    \cup {stmt \in DoUpdateStmts \cup DoNothingStmts :
             Len(stmt.lists) = 1 /\ stmt.args = <<>>}

Texts == {<<s1, s2>> : s1 \in FirstStmts, s2 \in SecondStmts}

SelectT == Query(Star, <<"t">>, <<>>, <<>>)

\* Tx.ExecContext with a text of several statements
ExecText == \E text \in Texts :
                /\ CanExec
                /\ LET r == TxExecContext(engine, text)
                   IN /\ engine' = r.engine
                      /\ tx' = [tx EXCEPT !.changes = @ \o r.changes, !.stmts = @ + 1]
                      /\ last' = [op |-> "text", err |-> r.err, affected |-> r.affected,
                                  stmt |-> text, log |-> Len(tx.changes)]
                /\ UNCHANGED <<snapshot, mutex, others>>

ExecOne == \E stmt \in SecondStmts : CanExec /\ Exec(stmt)

QueryT == CanQuery /\ QueryCall(SelectT)

NextOwn ==
    \/ Begin
    \/ ExecOne
    \/ ExecText
    \/ QueryT
    \/ Commit
    \/ Rollback

SpecOwn == InitUpsert /\ [][NextOwn]_vars

\* what a statement does to the rows it finds: a plain INSERT fails when a
\* row holds its key, an ON CONFLICT insert updates or skips, UPDATE sets v
\* of the rows holding the id, DELETE removes them
Outcome(rows, stmt) ==
    CASE stmt.kind = "insert" /\ HasOnConflict(stmt) ->
             [err |-> FALSE,
              rows |-> IF stmt.conflict.do = "update" THEN UpsertedFrom(rows, stmt, 1)
                       ELSE IgnoredFrom(rows, stmt, 1)]
      [] stmt.kind = "insert" /\ ~HasOnConflict(stmt) ->
             IF Holding(rows, stmt.lists[1][1]) # {} THEN [err |-> TRUE, rows |-> rows]
             ELSE [err |-> FALSE, rows |-> Append(rows, stmt.lists[1])]
      [] stmt.kind = "update" ->
             [err |-> FALSE,
              rows |-> [i \in DOMAIN rows |->
                           IF rows[i][1] = stmt.where.vals[1]
                           THEN <<rows[i][1], stmt.lists[1][1]>> ELSE rows[i]]]
      [] stmt.kind = "delete" ->
             [err |-> FALSE,
              rows |-> SelectSeq(rows, LAMBDA row : row[1] # stmt.where.vals[1])]

\* the statements of a text in turn, each on the rows the one before left;
\* the first that fails ends the text
RECURSIVE OutcomeFrom(_, _, _)
OutcomeFrom(rows, text, k) ==
    IF k > Len(text) THEN [err |-> FALSE, rows |-> rows]
    ELSE LET o == Outcome(rows, text[k])
         IN IF o.err THEN o ELSE OutcomeFrom(o.rows, text, k + 1)

\* the transaction has changed t
OwnWrites == tx.open /\ RowsIn(engine, "t") # RowsIn(snapshot, "t")

\* C22: inside a transaction every statement works on the rows the earlier
\* statements of the transaction left, committed or not: the second
\* statement of a text on the rows the first left, a statement of a later
\* call on the rows the earlier calls left (a plain INSERT fails exactly
\* when a row holds its key, ON CONFLICT updates or skips exactly then),
\* and SELECT * FROM t returns those rows
C22_OwnWrites ==
    [][/\ (ExecStep /\ last'.op = "text") =>
             LET o == OutcomeFrom(Before("t"), Stmt, 1)
             IN /\ (last'.err # NoErr) = o.err
                /\ ~o.err => After("t") = o.rows
       /\ (ExecStep /\ last'.op # "text") =>
             LET o == Outcome(Before("t"), Stmt)
             IN /\ (last'.err # NoErr) = o.err
                /\ After("t") = o.rows
       /\ (last'.op = "query" /\ tx.open) =>
             /\ last'.err = NoErr
             /\ last'.rows = Before("t")]_vars

\* inside a transaction that began with t holding ("1", "a"), a text deleted
\* that row and inserted ("1", "b"), and the SELECT that followed returned
\* ("1", "b") alone
C22_Witness ==
    /\ last.op = "query" /\ OwnWrites
    /\ RowsIn(snapshot, "t") = <<<<"1", "a">>>>
    /\ last.rows = <<<<"1", "b">>>>
    /\ tx.stmts = 1

(***************************************************************************)
(* The ninth specification: texts the parser rejects.  A text is a         *)
(* sequence of statements; a statement the parser does not accept stands   *)
(* for any malformed statement text.                                       *)
(***************************************************************************)
\* a statement the parser does not accept
Malformed == Statement("syntaxError", "", "", <<>>, <<>>, NoWhere, FALSE, FALSE, <<>>, <<>>)

\* texts holding a malformed statement: alone, before and after a valid one
BadTexts ==
    {<<Malformed>>}
    \cup {<<stmt, Malformed>> : stmt \in PlainStmts}
    \cup {<<Malformed, stmt>> : stmt \in PlainStmts}

\* SELECT * FROM t LIMIT 'x' and LIMIT $1: the token after LIMIT is not a
\* number
BadQueries ==
    {Query(Star, <<"t">>, <<Limit(Token("StringToken", "x"))>>, <<>>),
     Query(Star, <<"t">>, <<Limit(Token("ArgToken", "1"))>>, <<"1">>)}

ExecBadText == \E text \in BadTexts :
                   /\ CanExec
                   /\ LET r == TxExecContext(engine, text)
                      IN /\ engine' = r.engine
                         /\ tx' = [tx EXCEPT !.changes = @ \o r.changes, !.stmts = @ + 1]
                         /\ last' = [op |-> "text", err |-> r.err, affected |-> r.affected,
                                     stmt |-> text, log |-> Len(tx.changes)]
                   /\ UNCHANGED <<snapshot, mutex, others>>

QueryBad == \E q \in BadQueries : CanQuery /\ QueryCall(q)

NextParse ==
    \/ Begin
    \/ ExecPlain
    \/ ExecBadText
    \/ QueryBad
    \/ Commit
    \/ Rollback

SpecParse == InitUpsert /\ [][NextParse]_vars

\* C23: a text that fails to parse returns an error and none of its
\* statements is executed: the engine and the change log are as before the
\* call, also when a valid statement precedes the malformed one in the text;
\* a query that fails to parse returns an error and no rows and changes
\* nothing
C23_ParseFailure ==
    [][/\ (ExecStep /\ last'.op = "text") =>
             /\ last'.err # NoErr
             /\ last'.affected = 0
             /\ engine' = engine
             /\ tx'.changes = tx.changes
       /\ (last'.op = "query" /\ tx.open) =>
             /\ last'.err # NoErr
             /\ last'.rows = <<>>
             /\ engine' = engine
             /\ tx'.changes = tx.changes]_vars

\* the text INSERT INTO t (id, v) VALUES (1, a) followed by a malformed
\* statement returned an error inside a transaction that had inserted
\* ("2", "b"): t holds that row alone and the change log its one record
C23_Witness ==
    /\ last.op = "text" /\ last.err # NoErr
    /\ Len(last.stmt) = 2
    /\ last.stmt[1] = InsertStmt("t", <<"id", "v">>, <<<<"1", "a">>>>, <<>>)
    /\ last.stmt[2] = Malformed
    /\ tx.open /\ tx.stmts = 2
    /\ RowsIn(snapshot, "t") = <<>>
    /\ RowsIn(engine, "t") = <<<<"2", "b">>>>
    /\ Len(tx.changes) = 1

(***************************************************************************)
(* The tenth specification: SELECT with WHERE over products(id TEXT        *)
(* PRIMARY KEY, name TEXT), which exists in the schema foo and in public.  *)
(* The table of FROM is written with or without schema and alias, the      *)
(* columns with or without qualifier.                                      *)
(***************************************************************************)
WhereProductsDecl ==
    TableDecl(<<ColumnDecl("id", "text", TRUE, FALSE, <<>>),
                ColumnDecl("name", "text", FALSE, FALSE, <<>>)>>, <<>>, <<>>)

WhereSchemas == {"", "foo"}

\* CREATE SCHEMA foo; CREATE TABLE foo.products (...); CREATE TABLE products (...)
WhereEngine ==
    TxExecContext(NewEngine,
                  <<Statement("createSchema", "", "foo", <<>>, <<>>, NoWhere, FALSE, FALSE,
                              <<>>, <<>>),
                    Statement("createTable", "foo", "products", <<>>, <<>>, NoWhere, FALSE,
                              FALSE, <<WhereProductsDecl>>, <<>>),
                    Statement("createTable", "", "products", <<>>, <<>>, NoWhere, FALSE,
                              FALSE, <<WhereProductsDecl>>, <<>>)>>).engine

\* INSERT INTO [foo.]products (id, name) VALUES ($1, $2) and DELETE FROM
\* [foo.]products WHERE id = i
ProductStmts(schemas, ids, names) ==
    {Statement("insert", sc, "products", <<"id", "name">>, <<<<"$1", "$2">>>>, NoWhere,
               FALSE, FALSE, <<>>, <<i, x>>) :
        sc \in schemas, i \in ids, x \in names}
    \cup {Statement("delete", sc, "products", <<>>, <<>>,
                    NewEqPredicates(<<"id">>, <<i>>), TRUE, FALSE, <<>>, <<>>) :
             sc \in schemas, i \in ids}

\* the ways the table is written: [foo.]products, [foo.]products p,
\* [foo.]products AS p
FromTables ==
    {Table(sc, "products", "", FALSE) : sc \in WhereSchemas}
    \cup {Table(sc, "products", "p", as) : sc \in WhereSchemas, as \in BOOLEAN}

\* the qualifier columns are written with under a table of FROM: none, or
\* the alias when there is one
Qualifiers(t) == IF t.alias = "" THEN {""} ELSE {"", t.alias}

NoCondition == <<>>

\* SELECT [q.]name FROM table [WHERE [q.]id = 'i']
AliasQueries ==
    {QueryWhere(<<parseQualified(qi, "name")>>, <<t>>, w, <<>>) :
        t \in FromTables, qi \in {"", "p"},
        w \in {NoCondition}
              \cup {<<Condition(qw, "id", "=", Token("StringToken", i), "")>> :
                       qw \in {"", "p"}, i \in Ids}}

\* the queries whose qualifiers are the alias of the table or nothing
WellQualified(q) ==
    /\ q.items[1].decl # <<>> => q.items[1].decl[1].lexeme \in Qualifiers(q.from[1])
    /\ \A k \in DOMAIN q.where : q.where[k].table \in Qualifiers(q.from[1])

InitWhere ==
    /\ engine = WhereEngine
    /\ tx = NoTx
    /\ snapshot = engine
    /\ last = Last("open", NoErr, 0, NoStmt, 0)
    /\ Single

\* foo.products takes rows of both ids and names, products the row (1, b)
ExecProducts == \E stmt \in ProductStmts({"foo"}, Ids, Vs) \cup ProductStmts({""}, {"1"}, {"b"}) :
                    CanExec /\ Exec(stmt)

QueryAlias == \E q \in AliasQueries : CanQuery /\ WellQualified(q) /\ QueryCall(q)

NextAlias ==
    \/ Begin
    \/ ExecProducts
    \/ QueryAlias
    \/ Commit
    \/ Rollback

SpecAlias == InitWhere /\ [][NextAlias]_vars

\* q with the alias and every qualifier taken away
Unaliased(q) ==
    [q EXCEPT !.from[1].alias = "", !.from[1].as = FALSE,
              !.items = [i \in DOMAIN q.items |-> parseQualified("", q.items[i].lexeme)],
              !.where = [k \in DOMAIN q.where |-> [q.where[k] EXCEPT !.table = ""]]]

\* the names of the rows of schema.products that meet q's WHERE
NamesMeeting(e, q) ==
    LET rows == e.schemas[SchemaName(q.from[1].schema)].relations["products"].rows
        kept == SelectSeq(rows, LAMBDA row :
                    \A k \in DOMAIN q.where : row[1] = q.where[k].value.lexeme)
    IN [i \in DOMAIN kept |-> <<kept[i][2]>>]

FooTables == {"products", "items"}

\* CREATE SCHEMA [IF NOT EXISTS] foo and DROP SCHEMA [IF EXISTS] foo
FooSchemaStmts(kind) ==
    {Statement(kind, "", "foo", <<>>, <<>>, NoWhere, FALSE, f, <<>>, <<>>) : f \in BOOLEAN}

\* CREATE TABLE foo.t (id TEXT PRIMARY KEY), DROP TABLE foo.t and INSERT
\* INTO foo.products (id) VALUES ('1')
FooTableStmts ==
    {Statement("createTable", "foo", t, <<>>, <<>>, NoWhere, FALSE, FALSE, <<ItemsDecl>>, <<>>) :
        t \in FooTables}
    \cup {Statement("dropTable", "foo", t, <<>>, <<>>, NoWhere, FALSE, FALSE, <<>>, <<>>) :
             t \in FooTables}
    \cup {Statement("insert", "foo", "products", <<"id">>, <<<<"1">>>>, NoWhere, FALSE, FALSE,
                    <<>>, <<>>)}

InitSchema ==
    /\ engine = NewEngine
    /\ tx = NoTx
    /\ snapshot = engine
    /\ last = Last("open", NoErr, 0, NoStmt, 0)
    /\ Single

ExecCreateFoo == \E stmt \in FooSchemaStmts("createSchema") : CanExec /\ Exec(stmt)

ExecDropFoo == \E stmt \in FooSchemaStmts("dropSchema") : CanExec /\ Exec(stmt)

ExecFooTable == \E stmt \in FooTableStmts : CanExec /\ Exec(stmt)

NextSchema ==
    \/ Begin
    \/ ExecCreateFoo
    \/ ExecDropFoo
    \/ ExecFooTable
    \/ Commit
    \/ Rollback

SpecSchema == InitSchema /\ [][NextSchema]_vars

\* the schema exists and holds a relation
NonEmptySchema(e, name) == CheckSchema(e, name) /\ DOMAIN e.schemas[name].relations # {}

\* C26: DROP SCHEMA foo, with or without IF EXISTS, is rejected with an
\* error while foo holds a relation, and then leaves the engine, so foo and
\* its relations and their rows, as it was; when foo exists and holds no
\* relation it succeeds and removes foo
C26_DropSchema ==
    [][Executes("dropSchema", "foo") =>
          /\ NonEmptySchema(engine, "foo") => (last'.err # NoErr /\ engine' = engine)
          /\ (CheckSchema(engine, "foo") /\ ~NonEmptySchema(engine, "foo")) =>
                (last'.err = NoErr /\ ~CheckSchema(engine', "foo"))
          /\ ~CheckSchema(engine', "foo") => ~NonEmptySchema(engine, "foo")]_vars

\* DROP SCHEMA IF EXISTS foo was rejected while foo.products held a row,
\* which it still holds
C26_Witness ==
    /\ last.op = "dropSchema" /\ last.stmt.flag /\ last.err # NoErr
    /\ NonEmptySchema(engine, "foo")
    /\ "products" \in DOMAIN engine.schemas["foo"].relations
    /\ Len(engine.schemas["foo"].relations["products"].rows) = 1

(***************************************************************************)
(* Twelfth specification: DELETE without WHERE and TRUNCATE on products    *)
(* and foo.products.                                                       *)
(***************************************************************************)
WholeStmts(kind) ==
    {Statement(kind, sc, "products", <<>>, <<>>, NoWhere, FALSE, FALSE, <<>>, <<>>) :
        sc \in WhereSchemas}

ExecDeleteAll == \E stmt \in WholeStmts("delete") : CanExec /\ Exec(stmt)

ExecTruncateAll == \E stmt \in WholeStmts("truncate") : CanExec /\ Exec(stmt)

NextWhole ==
    \/ Begin
    \/ ExecProducts
    \/ ExecDeleteAll
    \/ ExecTruncateAll
    \/ Commit
    \/ Rollback

SpecWhole == InitWhere /\ [][NextWhole]_vars

\* the engine with the products of this schema emptied, rows and indexes
Emptied(e, schema) ==
    PutRelation(e, schema, "products",
                RelationTruncate(GetRelation(e, schema, "products")).relation)

\* the statement is DELETE without WHERE or TRUNCATE
IsWhole(stmt) == stmt.kind \in {"delete", "truncate"} /\ ~stmt.hasWhere

\* C27: DELETE FROM t without WHERE, like TRUNCATE t, succeeds on an
\* existing t, leaves t of the schema the statement names (public when it
\* names none) with no rows and empty indexes and every other relation as it
\* was, and reports the number of rows t held
C27_DeleteTruncate ==
    [][(ExecStep /\ IsWhole(Stmt)) =>
          /\ last'.err = NoErr
          /\ engine' = Emptied(engine, Stmt.schema)
          /\ last'.affected = Len(GetRelation(engine, Stmt.schema, "products").rows)]_vars

\* the same for the statements that name no schema
C27_Unqualified ==
    [][(ExecStep /\ IsWhole(Stmt) /\ Stmt.schema = "") =>
          /\ last'.err = NoErr
          /\ engine' = Emptied(engine, "")
          /\ last'.affected = Len(GetRelation(engine, "", "products").rows)]_vars

\* the same for TRUNCATE alone
C27_Truncate ==
    [][(ExecStep /\ Stmt.kind = "truncate") =>
          /\ last'.err = NoErr
          /\ engine' = Emptied(engine, Stmt.schema)
          /\ last'.affected = Len(GetRelation(engine, Stmt.schema, "products").rows)]_vars

\* DELETE FROM foo.products without WHERE was executed while foo.products
\* held two rows
C27_Reached ==
    /\ last.op = "delete" /\ ~last.stmt.hasWhere /\ last.stmt.schema = "foo"
    /\ last.affected = 1

(***************************************************************************)
(* Thirteenth specification: products rows whose name may be NULL, and     *)
(* queries that compare name with a value or test it for NULL.             *)
(***************************************************************************)
NullableNames == Vs \cup {Null}

NullOps == {"=", "<>", "IS NULL", "IS NOT NULL"}

\* SELECT id FROM products WHERE name = $1 / name <> $1 with one bound
\* argument, a name or nil, and WHERE name IS NULL / name IS NOT NULL
NullQueries ==
    {QueryWhere(<<parseQualified("", "id")>>, <<Table("", "products", "", FALSE)>>,
                <<Condition("", "name", op, Token("ArgToken", "1"), "")>>, <<x>>) :
        op \in {"=", "<>"}, x \in NullableNames}
    \cup {QueryWhere(<<parseQualified("", "id")>>, <<Table("", "products", "", FALSE)>>,
                     <<Condition("", "name", op, Token("NullToken", "null"), "")>>, <<>>) :
             op \in {"IS NULL", "IS NOT NULL"}}

ExecNullable == \E stmt \in ProductStmts({""}, Ids, NullableNames) : CanExec /\ Exec(stmt)

QueryNull == \E q \in NullQueries : CanQuery /\ QueryCall(q)

NextNull ==
    \/ Begin
    \/ ExecNullable
    \/ QueryNull
    \/ Commit
    \/ Rollback

SpecNull == InitWhere /\ [][NextNull]_vars

\* the ids of the rows of products whose name is in the set
IdsNamed(e, names) ==
    LET kept == SelectSeq(RowsIn(e, "products"), LAMBDA row : row[2] \in names)
    IN [i \in DOMAIN kept |-> <<kept[i][1]>>]

\* the value a query of NullQueries compares name with
Compared(q) == q.args[1]

\* C28: name = v selects the rows whose name is not NULL and equals v, none
\* when v is NULL; name <> v selects no row whose name, not NULL, equals v; name IS NULL selects exactly the rows whose name is
\* NULL and name IS NOT NULL exactly the others
C28_NullComparison ==
    (last.op = "query" /\ last.stmt \in NullQueries) =>
        /\ last.err = NoErr
        /\ last.stmt.where[1].op = "=" =>
              last.rows = IdsNamed(engine, {Compared(last.stmt)} \ {Null})
        /\ last.stmt.where[1].op = "<>" =>
              \A i \in DOMAIN last.rows :
                 \E row \in Range(RowsIn(engine, "products")) :
                    /\ row[1] = last.rows[i][1]
                    /\ (row[2] = Null \/ Compared(last.stmt) = Null
                           \/ row[2] # Compared(last.stmt))
        /\ last.stmt.where[1].op = "IS NULL" => last.rows = IdsNamed(engine, {Null})
        /\ last.stmt.where[1].op = "IS NOT NULL" => last.rows = IdsNamed(engine, Vs)

\* the part of C28 on the comparisons = and <>
C28_Comparisons ==
    (last.op = "query" /\ last.stmt \in NullQueries
        /\ last.stmt.where[1].op \in {"=", "<>"}) =>
        /\ last.err = NoErr
        /\ last.stmt.where[1].op = "=" =>
              last.rows = IdsNamed(engine, {Compared(last.stmt)} \ {Null})
        /\ last.stmt.where[1].op = "<>" =>
              \A i \in DOMAIN last.rows :
                 \E row \in Range(RowsIn(engine, "products")) :
                    /\ row[1] = last.rows[i][1]
                    /\ (row[2] = Null \/ Compared(last.stmt) = Null
                           \/ row[2] # Compared(last.stmt))

\* name = $1 with a nil argument returned no row while a row's name is NULL
C28_Reached ==
    /\ last.op = "query" /\ last.stmt \in NullQueries
    /\ last.stmt.where[1].op = "=" /\ Compared(last.stmt) = Null
    /\ last.rows = <<>>
    /\ IdsNamed(engine, {Null}) # <<>>

(***************************************************************************)
(* Fourteenth specification: queries on products whose WHERE chains three  *)
(* conditions with AND / OR.                                               *)
(***************************************************************************)
Links == {"AndToken", "OrToken"}

\* col = v and col <> v, followed by the link
ChainConditions(col, v, link) ==
    {Condition("", col, op, Token("StringToken", v), link) : op \in {"=", "<>"}}

\* SELECT id FROM products WHERE p1 op1 p2 op2 p3, with p1 and p3 on id and
\* p2 on name
ChainQueries ==
    {QueryWhere(<<parseQualified("", "id")>>, <<Table("", "products", "", FALSE)>>,
                <<p1, p2, p3>>, <<>>) :
        p1 \in UNION {ChainConditions("id", "1", l) : l \in Links},
        p2 \in UNION {ChainConditions("name", "a", l) : l \in Links},
        p3 \in ChainConditions("id", "1", "")}

ExecPublicProducts == \E stmt \in ProductStmts({""}, Ids, Vs) : CanExec /\ Exec(stmt)

QueryChain == \E q \in ChainQueries : CanQuery /\ QueryCall(q)

NextChain ==
    \/ Begin
    \/ ExecPublicProducts
    \/ QueryChain
    \/ Commit
    \/ Rollback

SpecChain == InitWhere /\ [][NextChain]_vars

\* the condition holds on a row (id, name) without NULL
Holds(c, row) ==
    LET v == IF c.col = "id" THEN row[1] ELSE row[2]
    IN IF c.op = "=" THEN v = c.value.lexeme ELSE v # c.value.lexeme

Linked(link, a, b) == IF link = "AndToken" THEN a /\ b ELSE a \/ b

\* ((p1 op1 p2) op2 p3) on a row
LeftAssociative(w, row) ==
    Linked(w[2].link, Linked(w[1].link, Holds(w[1], row), Holds(w[2], row)), Holds(w[3], row))

\* (p1 op1 (p2 op2 p3)) on a row
RightAssociative(w, row) ==
    Linked(w[1].link, Holds(w[1], row), Linked(w[2].link, Holds(w[2], row), Holds(w[3], row)))

\* the ids of the rows of products that meet the test
IdsMeeting(e, Test(_)) ==
    LET kept == SelectSeq(RowsIn(e, "products"), Test)
    IN [i \in DOMAIN kept |-> <<kept[i][1]>>]

\* C29: WHERE p1 op1 p2 op2 p3 returns exactly the rows that satisfy
\* ((p1 op1 p2) op2 p3), for op1, op2 in {AND, OR}
C29_LeftAssociative ==
    (last.op = "query" /\ last.stmt \in ChainQueries) =>
        /\ last.err = NoErr
        /\ last.rows = IdsMeeting(engine, LAMBDA row : LeftAssociative(last.stmt.where, row))

\* what the chain returns: the rows that satisfy (p1 op1 (p2 op2 p3))
C29_RightAssociative ==
    (last.op = "query" /\ last.stmt \in ChainQueries) =>
        /\ last.err = NoErr
        /\ last.rows = IdsMeeting(engine, LAMBDA row : RightAssociative(last.stmt.where, row))

\* id = '1' AND name = 'a' OR id <> '1' returned no row although a row has
\* another id than 1
C29_Reached ==
    /\ last.op = "query" /\ last.stmt \in ChainQueries
    /\ last.stmt.where[1].link = "AndToken" /\ last.stmt.where[2].link = "OrToken"
    /\ last.rows # IdsMeeting(engine, LAMBDA row : LeftAssociative(last.stmt.where, row))

(***************************************************************************)
(* Fifteenth specification: statements and queries on products whose       *)
(* values are parameters, $N or ?.                                         *)
(***************************************************************************)
\* INSERT INTO products (id, name) VALUES lists, with the bound arguments
InsertProducts(lists, args) ==
    Statement("insert", "", "products", <<"id", "name">>, lists, NoWhere, FALSE, FALSE,
              <<>>, args)

\* INSERT ... VALUES ($1, $2) and VALUES ($2, $1), and UPDATE products SET
\* name = $2 WHERE id = '1', with two arguments
PositionalStmts ==
    {InsertProducts(<<<<"$1", "$2">>>>, <<i, x>>) : i \in Ids, x \in Vs}
    \cup {InsertProducts(<<<<"$2", "$1">>>>, <<x, i>>) : i \in Ids, x \in Vs}
    \cup {[UpdateStmt("products", <<"name">>, <<"$2">>, NewEqPredicates(<<"id">>, <<"1">>))
              EXCEPT !.args = <<i, x>>] : i \in Ids, x \in Vs}

\* INSERT ... VALUES (?, ?), VALUES (?, ?), (?, ?) and UPDATE products SET
\* id = ?, name = ? WHERE id = '1' (the id given is 1), with as many
\* arguments as there are ?
OrdinalStmts ==
    {InsertProducts(<<<<"?", "?">>>>, <<i, x>>) : i \in Ids, x \in Vs}
    \cup {InsertProducts(<<<<"?", "?">>, <<"?", "?">>>>, <<"1", x, "2", y>>) :
             x \in Vs, y \in Vs}
    \cup {[UpdateStmt("products", <<"id", "name">>, <<"?", "?">>,
                      NewEqPredicates(<<"id">>, <<"1">>))
              EXCEPT !.args = <<"1", x>>] : x \in Vs}

\* SELECT id FROM products WHERE id = p1 AND name = p2, the parameters
\* written $1 $2, $2 $1 or ? ?
BindQueries ==
    {QueryWhere(<<parseQualified("", "id")>>, <<Table("", "products", "", FALSE)>>,
                <<Condition("", "id", "=", Token("ArgToken", p[1]), "AndToken"),
                  Condition("", "name", "=", Token("ArgToken", p[2]), "")>>, args) :
        p \in {<<"1", "2">>, <<"2", "1">>, <<"?", "?">>},
        args \in {<<i, x>> : i \in Ids, x \in Vs} \cup {<<x, i>> : i \in Ids, x \in Vs}}

ExecPositional == \E stmt \in PositionalStmts : CanExec /\ Exec(stmt)

ExecOrdinal == \E stmt \in OrdinalStmts : CanExec /\ Exec(stmt)

QueryBind == \E q \in BindQueries : CanQuery /\ QueryCall(q)

NextBind ==
    \/ Begin
    \/ ExecPositional
    \/ ExecOrdinal
    \/ ExecPublicProducts
    \/ QueryBind
    \/ Commit
    \/ Rollback

SpecBind == InitWhere /\ [][NextBind]_vars

\* the number of ? in the value lists before item i of list l
OrdinalsBefore(lists, l, i) ==
    Cardinality({<<m, j>> \in (1..l) \X (1..2) :
                    /\ m \in DOMAIN lists /\ j \in DOMAIN lists[m]
                    /\ (m < l \/ (m = l /\ j < i))
                    /\ lists[m][j] = "?"})

\* the argument a parameter of the statement stands for: the N-th for $N,
\* the k-th for the k-th ? of the whole statement
ArgumentOf(stmt, l, i) ==
    IF stmt.lists[l][i] = "?" THEN stmt.args[OrdinalsBefore(stmt.lists, l, i) + 1]
    ELSE stmt.args[ArgNumber(stmt.lists[l][i])]

\* the statement with every parameter replaced by the literal of its argument
BoundStmt(stmt) ==
    [stmt EXCEPT !.lists = [l \in DOMAIN stmt.lists |->
                               [i \in DOMAIN stmt.lists[l] |->
                                   IF IsArgToken(stmt.lists[l][i])
                                   THEN ArgumentOf(stmt, l, i) ELSE stmt.lists[l][i]]],
                 !.args = <<>>]

\* the same for a query: the k-th ? of WHERE is the k-th argument
BoundQuery(q) ==
    [q EXCEPT !.where = [k \in DOMAIN q.where |->
                            LET lex == q.where[k].value.lexeme
                                n == IF lex = "?"
                                     THEN Cardinality({j \in 1..k : q.where[j].value.lexeme = "?"})
                                     ELSE ParseInt(lex).n
                            IN [q.where[k] EXCEPT !.value = Token("StringToken", q.args[n])]],
              !.args = <<>>]

\* the step executed stmt as if its parameters were the literals
ExecutedAsBound(stmt) ==
    LET r == TxExecContext(engine, <<BoundStmt(stmt)>>)
    IN engine' = r.engine /\ last'.err = r.err /\ last'.affected = r.affected

\* the step answered q as if its parameters were the literals
QueriedAsBound(q) ==
    LET r == TxQueryContext(engine, dbName, BoundQuery(q))
    IN last'.err = r.err /\ last'.rows = r.rows

\* C30: a statement or query with parameters does what it does with each
\* parameter replaced by its argument, the N-th for $N and the k-th for the
\* k-th ? counted over all value lists, SET assignments and the WHERE clause
C30_Positional ==
    [][/\ (ExecStep /\ Stmt \in PositionalStmts \cup OrdinalStmts) => ExecutedAsBound(Stmt)
       /\ (last'.op = "query" /\ last'.stmt \in BindQueries) =>
             QueriedAsBound(last'.stmt)]_vars

\* the part of C30 on $N
C30_Dollar ==
    [][/\ (ExecStep /\ Stmt \in PositionalStmts) => ExecutedAsBound(Stmt)
       /\ (last'.op = "query" /\ last'.stmt \in BindQueries
             /\ last'.stmt.where[1].value.lexeme # "?") =>
             QueriedAsBound(last'.stmt)]_vars

\* the part of C30 on ? within one value list
C30_OneList ==
    [][(ExecStep /\ Stmt \in OrdinalStmts /\ Stmt.kind = "insert" /\ Len(Stmt.lists) = 1) =>
          ExecutedAsBound(Stmt)]_vars

\* INSERT INTO products (id, name) VALUES (?, ?), (?, ?) failed on the
\* second list
C30_Reached ==
    /\ last.op = "insert" /\ last.stmt \in OrdinalStmts /\ Len(last.stmt.lists) = 2
    /\ last.err # NoErr
    /\ RowsIn(engine, "products") = <<<<"1", "a">>>>

(***************************************************************************)
(* Sixteenth specification: CREATE TABLE of child tables declared in       *)
(* several ways over the parents p1(id), p2(id) and pair(k1, k2), and      *)
(* INSERT into them.  The table is named after its declaration.            *)
(***************************************************************************)
ParentDecl == TableDecl(<<ColumnDecl("id", "text", TRUE, FALSE, <<>>)>>, <<>>, <<>>)

PairDecl ==
    TableDecl(<<ColumnDecl("k1", "text", FALSE, FALSE, <<>>),
                ColumnDecl("k2", "text", FALSE, FALSE, <<>>)>>, <<"k1", "k2">>, <<>>)

CreateStmt(t, decl) ==
    Statement("createTable", "", t, <<>>, <<>>, NoWhere, FALSE, FALSE, <<decl>>, <<>>)

\* p1 holds id 1, p2 holds id 2, pair holds (1, 2)
TablesEngine ==
    TxExecContext(NewEngine,
                  <<CreateStmt("p1", ParentDecl), CreateStmt("p2", ParentDecl),
                    CreateStmt("pair", PairDecl),
                    InsertStmt("p1", <<"id">>, <<<<"1">>>>, <<>>),
                    InsertStmt("p2", <<"id">>, <<<<"2">>>>, <<>>),
                    InsertStmt("pair", <<"k1", "k2">>, <<<<"1", "2">>>>, <<>>)>>).engine

\* REFERENCES t(id) on a column
Ref(t) == <<[refSchema |-> "", refTable |-> t, refCol |-> "id"]>>

ChildNames == {"plain", "two", "shared", "composite", "dupname", "nopk"}

\* plain:     (id TEXT PRIMARY KEY, u TEXT UNIQUE, a TEXT REFERENCES p1(id))
\* two:       (id TEXT PRIMARY KEY, u TEXT, a TEXT REFERENCES p1(id),
\*             FOREIGN KEY (u) REFERENCES p2(id))
\* shared:    (id TEXT PRIMARY KEY, u TEXT UNIQUE, a TEXT REFERENCES p1(id),
\*             FOREIGN KEY (a) REFERENCES p2(id))
\* composite: (id TEXT PRIMARY KEY, u TEXT, a TEXT,
\*             FOREIGN KEY (u, a) REFERENCES pair(k1, k2))
\* dupname:   (id TEXT PRIMARY KEY, u TEXT UNIQUE, a TEXT, A TEXT)
\* nopk:      (id TEXT, u TEXT UNIQUE, a TEXT, PRIMARY KEY (b))
ChildDecl(v) ==
    LET col(name, isPk, unique, ref) == ColumnDecl(name, "text", isPk, unique, ref)
    IN CASE v = "plain" ->
              TableDecl(<<col("id", TRUE, FALSE, <<>>), col("u", FALSE, TRUE, <<>>),
                          col("a", FALSE, FALSE, Ref("p1"))>>, <<>>, <<>>)
         [] v = "two" ->
              TableDecl(<<col("id", TRUE, FALSE, <<>>), col("u", FALSE, FALSE, <<>>),
                          col("a", FALSE, FALSE, Ref("p1"))>>, <<>>,
                        <<ForeignKeyDecl("", <<"u">>, "", "p2", <<"id">>)>>)
         [] v = "shared" ->
              TableDecl(<<col("id", TRUE, FALSE, <<>>), col("u", FALSE, TRUE, <<>>),
                          col("a", FALSE, FALSE, Ref("p1"))>>, <<>>,
                        <<ForeignKeyDecl("", <<"a">>, "", "p2", <<"id">>)>>)
         [] v = "composite" ->
              TableDecl(<<col("id", TRUE, FALSE, <<>>), col("u", FALSE, FALSE, <<>>),
                          col("a", FALSE, FALSE, <<>>)>>, <<>>,
                        <<ForeignKeyDecl("", <<"u", "a">>, "", "pair", <<"k1", "k2">>)>>)
         [] v = "dupname" ->
              TableDecl(<<col("id", TRUE, FALSE, <<>>), col("u", FALSE, TRUE, <<>>),
                          col("a", FALSE, FALSE, <<>>), col("A", FALSE, FALSE, <<>>)>>,
                        <<>>, <<>>)
         [] v = "nopk" ->
              TableDecl(<<col("id", FALSE, FALSE, <<>>), col("u", FALSE, TRUE, <<>>),
                          col("a", FALSE, FALSE, <<>>)>>, <<"b">>, <<>>)

ChildCols == <<"id", "u", "a">>

ChildInserts ==
    {InsertStmt(v, ChildCols, <<<<i, u, a>>>>, <<>>) :
        v \in ChildNames, i \in Ids, u \in Ids, a \in Ids}

ChildDrops ==
    {Statement("dropTable", "", v, <<>>, <<>>, NoWhere, FALSE, FALSE, <<>>, <<>>) :
        v \in ChildNames}

InitTables ==
    /\ engine = TablesEngine
    /\ tx = NoTx
    /\ snapshot = engine
    /\ last = Last("open", NoErr, 0, NoStmt, 0)
    /\ Single

\* one child table at a time
ExecCreateChild == \E v \in ChildNames :
                       /\ CanExec
                       /\ \A w \in ChildNames : ~HasRelation(engine, "", w)
                       /\ Exec(CreateStmt(v, ChildDecl(v)))

ExecDropChild == \E stmt \in ChildDrops : CanExec /\ Exec(stmt)

ExecInsertChild == \E stmt \in ChildInserts :
                       CanExec /\ HasRelation(engine, "", stmt.relation) /\ Exec(stmt)

NextTables ==
    \/ Begin
    \/ ExecCreateChild
    \/ ExecDropChild
    \/ ExecInsertChild
    \/ Commit
    \/ Rollback

SpecTables == InitTables /\ [][NextTables]_vars

\* the column names a declaration gives its relation, and its PRIMARY KEY
\* column list
DeclNames(decl) == [i \in DOMAIN decl.columns |-> ToLower(decl.columns[i].name)]

DeclPk(decl) == InlinePk(decl.columns) \o decl.pk

\* the foreign keys a declaration declares, column-level and table-level
DeclFKs(decl) ==
    {[localColumns |-> <<ToLower(decl.columns[i].name)>>,
      refRelation |-> decl.columns[i].ref[1].refTable,
      refColumns |-> <<decl.columns[i].ref[1].refCol>>] :
        i \in {j \in DOMAIN decl.columns : Len(decl.columns[j].ref) > 0}}
    \cup {[localColumns |-> decl.fks[k].localColumns,
           refRelation |-> decl.fks[k].refRelation,
           refColumns |-> decl.fks[k].refColumns] : k \in DOMAIN decl.fks}

\* the relation owns exactly one hash index on this column list
OwnsIndexOn(r, cols) ==
    Cardinality({i \in DOMAIN r.indexes : r.indexes[i].attrsName = cols}) = 1

\* the relation of declaration decl owns the indexes of C32
OwnsDeclaredIndexes(r, decl) ==
    /\ DeclPk(decl) # <<>> => OwnsIndexOn(r, DeclPk(decl))
    /\ \A i \in DOMAIN decl.columns :
          decl.columns[i].unique => OwnsIndexOn(r, <<ToLower(decl.columns[i].name)>>)
    /\ \A fk \in DeclFKs(decl) : OwnsIndexOn(r, fk.localColumns)

\* C32: every relation created by CREATE TABLE owns, while it exists, one
\* hash index on its PRIMARY KEY column list, one on each UNIQUE column and
\* one on the local columns of each declared foreign key
C32_Indexes ==
    \A v \in ChildNames :
        HasRelation(engine, "", v) => OwnsDeclaredIndexes(GetRelation(engine, "", v), ChildDecl(v))

\* the same for the declarations whose PRIMARY KEY names columns of the table
C32_DeclaredKey ==
    \A v \in ChildNames \ {"nopk"} :
        HasRelation(engine, "", v) => OwnsDeclaredIndexes(GetRelation(engine, "", v), ChildDecl(v))

\* the table declared with PRIMARY KEY (b) exists and owns no index on b
C32_Reached ==
    /\ HasRelation(engine, "", "nopk")
    /\ ~hasIndexOn(GetRelation(engine, "", "nopk"), <<"b">>)

\* the attribute names of r are pairwise distinct
DistinctNames(r) ==
    \A i \in DOMAIN r.attributes : \A j \in DOMAIN r.attributes :
        r.attributes[i].name = r.attributes[j].name => i = j

\* every primary-key position of r is a column the PRIMARY KEY of decl names
KeyDeclared(r, decl) ==
    \A k \in DOMAIN r.pk :
        /\ r.pk[k] \in DOMAIN r.attributes
        /\ r.attributes[r.pk[k]].name \in Range(DeclPk(decl))

\* C33: in every relation the attribute names are pairwise distinct (names
\* are folded to lower case) and every primary-key position is an attribute
\* named in the PRIMARY KEY declaration
C33_WellFormed ==
    \A v \in ChildNames :
        HasRelation(engine, "", v) =>
            /\ DistinctNames(GetRelation(engine, "", v))
            /\ KeyDeclared(GetRelation(engine, "", v), ChildDecl(v))

\* the same for the declarations with distinct column names and a PRIMARY
\* KEY on columns of the table
C33_Regular ==
    \A v \in ChildNames \ {"dupname", "nopk"} :
        HasRelation(engine, "", v) =>
            /\ DistinctNames(GetRelation(engine, "", v))
            /\ KeyDeclared(GetRelation(engine, "", v), ChildDecl(v))

\* CREATE TABLE dupname (..., a TEXT, A TEXT) succeeded and the relation
\* has two attributes named a
C33_Reached ==
    /\ last.op = "createTable" /\ last.stmt.relation = "dupname" /\ last.err = NoErr
    /\ HasRelation(engine, "", "dupname")
    /\ ~DistinctNames(GetRelation(engine, "", "dupname"))

\* CREATE TABLE nopk (id TEXT, ..., PRIMARY KEY (b)) succeeded and the
\* relation's primary key is its first attribute, id
C33_ReachedKey ==
    /\ last.op = "createTable" /\ last.stmt.relation = "nopk" /\ last.err = NoErr
    /\ HasRelation(engine, "", "nopk")
    /\ GetRelation(engine, "", "nopk").pk = <<1>>

\* the foreign-key groups the relation derives, as DeclFKs writes them
DerivedFKs(r) ==
    {[localColumns |-> fk.localColumns, refRelation |-> fk.refRelation,
      refColumns |-> fk.refColumns] : fk \in Range(uniqueRelationFKs(r))}

\* every row of r has a parent row for the declared foreign key fk
Enforced(e, r, fk) ==
    \A i \in DOMAIN r.rows :
        ~FKMissing(e, "", r,
                   NewForeignKey("", fk.localColumns, "", fk.refRelation, fk.refColumns),
                   r.rows[i])

\* the relation of declaration decl derives and enforces the declared keys
DerivesDeclared(e, r, decl) ==
    /\ DerivedFKs(r) = DeclFKs(decl)
    /\ Len(uniqueRelationFKs(r)) = Cardinality(DeclFKs(decl))
    /\ \A fk \in DeclFKs(decl) : Enforced(e, r, fk)

\* C35: the foreign-key groups of a relation are exactly the foreign keys
\* its CREATE TABLE declares, a composite key being one group, and every
\* row of the relation has a parent row for every declared foreign key
C35_Groups ==
    \A v \in ChildNames :
        HasRelation(engine, "", v) =>
            DerivesDeclared(engine, GetRelation(engine, "", v), ChildDecl(v))

\* the same for the declarations whose foreign keys share no local column
C35_Disjoint ==
    \A v \in ChildNames \ {"shared"} :
        HasRelation(engine, "", v) =>
            DerivesDeclared(engine, GetRelation(engine, "", v), ChildDecl(v))

\* shared holds a row whose a is 2, the id of no row of p1
C35_Reached ==
    /\ HasRelation(engine, "", "shared")
    /\ \E i \in DOMAIN RowsIn(engine, "shared") : RowsIn(engine, "shared")[i][3] = "2"

\* composite holds a row referencing the pair (1, 2) and derives one group
C35_ReachedComposite ==
    /\ HasRelation(engine, "", "composite")
    /\ Len(uniqueRelationFKs(GetRelation(engine, "", "composite"))) = 1
    /\ RowsIn(engine, "composite") # <<>>

(***************************************************************************)
(* Seventeenth specification: CREATE INDEX on products(id TEXT PRIMARY     *)
(* KEY, name TEXT) between the inserts and deletes of its rows.            *)
(***************************************************************************)
\* CREATE INDEX idx ON products (name)
CreateIndexStmt(name, t, cols) ==
    Statement("createIndex", "", t, cols, <<>>, NoWhere, FALSE, FALSE, <<name>>, <<>>)

IndexStmts == {CreateIndexStmt("idx", "products", <<"name">>)}

\* the index is created once
ExecCreateIndex ==
    \E stmt \in IndexStmts :
        /\ CanExec
        /\ ~hasIndexOn(GetRelation(engine, "", stmt.relation), stmt.cols)
        /\ Exec(stmt)

NextIndex ==
    \/ Begin
    \/ ExecPublicProducts
    \/ ExecCreateIndex
    \/ Commit
    \/ Rollback

SpecIndex == InitWhere /\ [][NextIndex]_vars

\* the indexes of products that CREATE INDEX made
CreatedIndexes(e) ==
    LET r == GetRelation(e, "", "products")
    IN {k \in DOMAIN r.indexes : r.indexes[k].prefix = ""}

\* every row of r is found in index ix under the key of its values
Reachable(r, ix) ==
    \A i \in DOMAIN r.rows : r.rows[i] \in IndexGet(ix, IndexKey(ix, r.rows[i]))

\* C34: after CREATE INDEX on a relation that holds rows, every row the
\* relation holds is found in the new index under the key of its values
C34_IndexHoldsRows ==
    \A k \in CreatedIndexes(engine) :
        Reachable(GetRelation(engine, "", "products"),
                  GetRelation(engine, "", "products").indexes[k])

\* CREATE INDEX on a relation without rows leaves the index consistent, and
\* so does every insert made once the index exists
C34_EmptyAtCreation ==
    [][(\A k \in CreatedIndexes(engine) :
           Reachable(GetRelation(engine, "", "products"),
                     GetRelation(engine, "", "products").indexes[k]))
       /\ ~(last'.op = "createIndex" /\ GetRelation(engine, "", "products").rows # <<>>)
       /\ last'.op # "rollback"
       => (\A k \in CreatedIndexes(engine') :
              Reachable(GetRelation(engine', "", "products"),
                        GetRelation(engine', "", "products").indexes[k]))]_vars

\* CREATE INDEX succeeded on products while it held a row
C34_Reached ==
    /\ last.op = "createIndex" /\ last.err = NoErr
    /\ GetRelation(engine, "", "products").rows # <<>>
    /\ CreatedIndexes(engine) # {}

(***************************************************************************)
(* Eighteenth specification: SELECT DISTINCT [ON (...)] over products.     *)
(***************************************************************************)
ProductColumns == <<"id", "name">>

\* the column lists selected and listed in ON
ColumnLists == {<<"name">>, <<"name", "id">>, <<"id", "name">>}

\* SELECT DISTINCT [ON (on)] items FROM products
DistinctQueries ==
    {QueryDistinct([k \in DOMAIN items |-> parseQualified("", items[k])],
                   <<Table("", "products", "", FALSE)>>, on) :
        items \in ColumnLists, on \in ColumnLists \cup {<<>>, <<"id">>}}

QueryDistinctCall == \E q \in DistinctQueries : CanQuery /\ QueryCall(q)

NextDistinct ==
    \/ Begin
    \/ ExecPublicProducts
    \/ QueryDistinctCall
    \/ Commit
    \/ Rollback

SpecDistinct == InitWhere /\ [][NextDistinct]_vars

\* the position of a column of products
ColumnPos(col) == CHOOSE i \in DOMAIN ProductColumns : ProductColumns[i] = col

\* a row of products under the columns cols
ProjectedTo(row, cols) == [k \in DOMAIN cols |-> row[ColumnPos(cols[k])]]

\* the rows that are the first of their key under cols, projected to items
FirstOfKey(rows, cols, items) ==
    LET idx == [i \in DOMAIN rows |-> i]
        first == SelectSeq(idx, LAMBDA i : \A j \in 1..(i - 1) :
                                   ProjectedTo(rows[j], cols) # ProjectedTo(rows[i], cols))
    IN [k \in DOMAIN first |-> ProjectedTo(rows[first[k]], items)]

\* the selected column names of a query
SelectedNames(q) == [k \in DOMAIN q.items |-> q.items[k].lexeme]

\* the columns a DISTINCT query deduplicates by: those of ON, every selected
\* one without ON
DedupColumns(q) == IF q.distinct[1] = <<>> THEN SelectedNames(q) ELSE q.distinct[1]

IsDistinct(q) == q.kind = "select" /\ q.distinct # <<>>

\* C36: SELECT DISTINCT without ON returns, of the rows that agree on every
\* selected attribute, the first one only; DISTINCT ON (cols) returns, of the
\* rows that agree on the listed columns, the first one only
C36_Distinct ==
    (last.op = "query" /\ IsDistinct(last.stmt) /\ last.err = NoErr) =>
        last.rows = FirstOfKey(GetRelation(engine, "", "products").rows,
                               DedupColumns(last.stmt), SelectedNames(last.stmt))

\* the same for DISTINCT ON (cols) and for DISTINCT with one selected
\* attribute
C36_Listed ==
    (/\ last.op = "query" /\ IsDistinct(last.stmt) /\ last.err = NoErr
     /\ (last.stmt.distinct[1] # <<>> \/ Len(last.stmt.items) = 1)) =>
        last.rows = FirstOfKey(GetRelation(engine, "", "products").rows,
                               DedupColumns(last.stmt), SelectedNames(last.stmt))

\* SELECT DISTINCT name, id was answered while two rows share the name
C36_Reached ==
    /\ last.op = "query" /\ IsDistinct(last.stmt) /\ last.err = NoErr
    /\ last.stmt.distinct[1] = <<>> /\ SelectedNames(last.stmt) = <<"name", "id">>
    /\ \E i, j \in DOMAIN GetRelation(engine, "", "products").rows :
          /\ i # j
          /\ GetRelation(engine, "", "products").rows[i][2]
                = GetRelation(engine, "", "products").rows[j][2]

\* DISTINCT ON (name) dropped a row whose name an earlier row has
C36_ReachedOn ==
    /\ last.op = "query" /\ IsDistinct(last.stmt) /\ last.err = NoErr
    /\ last.stmt.distinct[1] = <<"name">>
    /\ Len(last.rows) < Len(GetRelation(engine, "", "products").rows)

(***************************************************************************)
(* Nineteenth specification: statements and queries on products whose      *)
(* parameters, $N or :name, are given too few arguments or arguments of    *)
(* other names, next to those given all of them.                           *)
(***************************************************************************)
\* the argument lists and their names: (id, name) in full, the first
\* argument alone, none
GivenArgs ==
    {[args |-> <<i, x>>, names |-> <<"n", "m">>] : i \in Ids, x \in Vs}
    \cup {[args |-> <<i>>, names |-> <<"n">>] : i \in Ids}
    \cup {[args |-> <<>>, names |-> <<>>]}

\* INSERT INTO products (id, name) VALUES ($1, $2) and UPDATE products SET
\* name = $2 WHERE id = '1'
DollarStmts ==
    {InsertProducts(<<<<"$1", "$2">>>>, g.args) : g \in GivenArgs}
    \cup {[UpdateStmt("products", <<"name">>, <<"$2">>, NewEqPredicates(<<"id">>, <<"1">>))
              EXCEPT !.args = g.args] : g \in GivenArgs}

\* INSERT INTO products (id, name) VALUES (:n, :m) and UPDATE products SET
\* name = :m WHERE id = '1', the arguments given with sql.Named
NamedStmts ==
    {WithNames(InsertProducts(<<<<":n", ":m">>>>, g.args), g.names) : g \in GivenArgs}
    \cup {WithNames([UpdateStmt("products", <<"name">>, <<":m">>,
                                NewEqPredicates(<<"id">>, <<"1">>))
                        EXCEPT !.args = g.args], g.names) : g \in GivenArgs}

\* SELECT id FROM products WHERE name = $2 and WHERE name = :m
ArgQueries ==
    {QueryWhere(<<parseQualified("", "id")>>, <<Table("", "products", "", FALSE)>>,
                <<Condition("", "name", "=", Token("ArgToken", "2"), "")>>, g.args) :
        g \in GivenArgs}
    \cup {WithNames(QueryWhere(<<parseQualified("", "id")>>,
                               <<Table("", "products", "", FALSE)>>,
                               <<Condition("", "name", "=", Token("NamedArgToken", "m"), "")>>,
                               g.args), g.names) : g \in GivenArgs}

ExecDollar == \E stmt \in DollarStmts : CanExec /\ Exec(stmt)

ExecNamed == \E stmt \in NamedStmts : CanExec /\ Exec(stmt)

QueryArg == \E q \in ArgQueries : CanQuery /\ QueryCall(q)

NextArgs ==
    \/ Begin
    \/ ExecDollar
    \/ ExecNamed
    \/ QueryArg
    \/ Commit
    \/ Rollback

SpecArgs == InitWhere /\ [][NextArgs]_vars

\* the names the arguments of a call are given with
NamesGiven(stmt) ==
    IF "names" \in DOMAIN stmt THEN {stmt.names[i] : i \in DOMAIN stmt.names} ELSE {}

\* a value token of VALUES or SET refers to an argument the call lacks
LacksValue(stmt, tok) ==
    \/ tok \in {"$1", "$2", "$3"} /\ ArgNumber(tok) > Len(stmt.args)
    \/ IsNamedArgToken(tok) /\ NamedArgLexeme(tok) \notin NamesGiven(stmt)

\* a statement refers to an argument the call lacks
LacksArgument(stmt) ==
    \E l \in DOMAIN stmt.lists : \E i \in DOMAIN stmt.lists[l] :
        LacksValue(stmt, stmt.lists[l][i])

\* a query's WHERE refers to an argument the call lacks
LacksCondition(q) ==
    \E k \in DOMAIN q.where :
        \/ q.where[k].value.token = "ArgToken"
              /\ ParseInt(q.where[k].value.lexeme).n > Len(q.args)
        \/ q.where[k].value.token = "NamedArgToken"
              /\ q.where[k].value.lexeme \notin NamesGiven(q)

\* C37: a statement whose VALUES or SET, or a query whose WHERE, refers to
\* $N with fewer than N arguments given, or to a named parameter with no
\* argument of that name, fails with an error, and the statement leaves the
\* engine as it was
C37_MissingArgument ==
    [][/\ (ExecStep /\ Stmt \in DollarStmts \cup NamedStmts /\ LacksArgument(Stmt)) =>
              (last'.err # NoErr /\ engine' = engine)
       /\ (last'.op = "query" /\ last'.stmt \in ArgQueries /\ LacksCondition(last'.stmt)) =>
              last'.err # NoErr]_vars

\* the same for $N in VALUES, SET and WHERE, and for :name in WHERE
C37_Dollar ==
    [][/\ (ExecStep /\ Stmt \in DollarStmts /\ LacksArgument(Stmt)) =>
              (last'.err # NoErr /\ engine' = engine)
       /\ (last'.op = "query" /\ last'.stmt \in ArgQueries /\ LacksCondition(last'.stmt)) =>
              last'.err # NoErr]_vars

\* INSERT ... VALUES (:n, :m) was executed with the argument n alone
C37_Reached ==
    /\ last.op = "insert" /\ last.stmt \in NamedStmts /\ LacksArgument(last.stmt)
    /\ Len(last.stmt.args) = 1

\* UPDATE ... SET name = $2 with one argument was rejected while products
\* held the row it names
C37_ReachedDollar ==
    /\ last.op = "update" /\ last.stmt \in DollarStmts /\ LacksArgument(last.stmt)
    /\ last.err # NoErr
    /\ \E i \in DOMAIN GetRelation(engine, "", "products").rows :
          GetRelation(engine, "", "products").rows[i][1] = "1"

(***************************************************************************)
(* Twentieth specification: INSERT ... ON CONFLICT (cols) DO UPDATE on     *)
(* t(id TEXT PRIMARY KEY, v TEXT) with the conflict target on the primary  *)
(* key, on v, and on both columns.                                         *)
(***************************************************************************)
ConflictTargets == {<<"id">>, <<"v">>, <<"id", "v">>, <<"v", "id">>}

\* SET v = excluded.v and SET v = 'c'
TargetSets ==
    {<<[col |-> "v", value |-> [lexeme |-> "v", table |-> "excluded"]]>>,
     <<[col |-> "v", value |-> [lexeme |-> "c", table |-> ""]]>>}

\* INSERT INTO t (id, v) VALUES (i, x) ON CONFLICT (cols) DO UPDATE SET v = ...
TargetStmts ==
    {OnConflict(InsertStmt("t", <<"id", "v">>, <<<<i, x>>>>, <<>>), cols, "update", sets) :
        i \in Ids, x \in Vs, cols \in ConflictTargets, sets \in TargetSets}

ExecTarget == \E stmt \in TargetStmts : CanExec /\ Exec(stmt)

NextTarget ==
    \/ Begin
    \/ ExecTarget
    \/ ExecPlain
    \/ Commit
    \/ Rollback

SpecTarget == InitUpsert /\ [][NextTarget]_vars

\* the value SET gives v when the row p is proposed
AssignedValue(stmt, p) ==
    IF stmt.conflict.sets[1].value.table = "excluded" THEN p[2]
    ELSE stmt.conflict.sets[1].value.lexeme

\* rows with v of the row holding p's key set to val
UpdatedAtKey(rows, p, val) ==
    [i \in DOMAIN rows |-> IF rows[i][1] = p[1] THEN <<rows[i][1], val>> ELSE rows[i]]

\* the step executes a statement of TargetStmts whose key a row of t holds
ExecutesTarget ==
    /\ Executes("insert", "t")
    /\ Stmt \in TargetStmts
    /\ Holding(GetRelation(engine, "", "t").rows, Proposed(Stmt, 1)[1]) # {}

\* C39: when the proposed row's primary key is held, ON CONFLICT (cols) DO
\* UPDATE succeeds and changes the row holding that key and no other row,
\* whatever columns the conflict target lists
C39_ConflictingRow ==
    [][ExecutesTarget =>
          /\ last'.err = NoErr
          /\ GetRelation(engine', "", "t").rows
                = UpdatedAtKey(GetRelation(engine, "", "t").rows, Proposed(Stmt, 1),
                               AssignedValue(Stmt, Proposed(Stmt, 1)))]_vars

\* the same when the conflict target is the primary key
C39_KeyTarget ==
    [][(ExecutesTarget /\ Stmt.conflict.cols = <<"id">>) =>
          /\ last'.err = NoErr
          /\ GetRelation(engine', "", "t").rows
                = UpdatedAtKey(GetRelation(engine, "", "t").rows, Proposed(Stmt, 1),
                               AssignedValue(Stmt, Proposed(Stmt, 1)))]_vars

\* ON CONFLICT (v) DO UPDATE SET v = 'c' succeeded on a held key while
\* another row had the proposed v
C39_Reached ==
    /\ last.op = "insert" /\ last.stmt \in TargetStmts /\ last.err = NoErr
    /\ last.stmt.conflict.cols = <<"v">>
    /\ \E i, j \in DOMAIN GetRelation(engine, "", "t").rows :
          /\ i # j
          /\ GetRelation(engine, "", "t").rows[i][1] = Proposed(last.stmt, 1)[1]
          /\ GetRelation(engine, "", "t").rows[j][2] = "c"
          /\ GetRelation(engine, "", "t").rows[i][2] # "c"

\* ON CONFLICT (id) DO UPDATE SET v = 'c' changed the row holding the key
C39_ReachedKey ==
    /\ last.op = "insert" /\ last.stmt \in TargetStmts /\ last.err = NoErr
    /\ last.stmt.conflict.cols = <<"id">> /\ last.affected = 1
    /\ \E i \in DOMAIN GetRelation(engine, "", "t").rows :
          GetRelation(engine, "", "t").rows[i] = <<Proposed(last.stmt, 1)[1], "c">>

(***************************************************************************)
(* Twenty-first specification: CREATE SCHEMA and DROP SCHEMA, with and     *)
(* without IF [NOT] EXISTS, on public, information_schema and foo, from    *)
(* the engine NewEngine builds.                                            *)
(***************************************************************************)
MandatorySchemas == {DefaultSchema, "information_schema"}

\* CREATE SCHEMA [IF NOT EXISTS] s and DROP SCHEMA [IF EXISTS] s
AnySchemaStmts(kind) ==
    {Statement(kind, "", s, <<>>, <<>>, NoWhere, FALSE, flag, <<>>, <<>>) :
        s \in MandatorySchemas \cup {"foo"}, flag \in BOOLEAN}

ExecCreateAnySchema == \E stmt \in AnySchemaStmts("createSchema") : CanExec /\ Exec(stmt)

ExecDropAnySchema == \E stmt \in AnySchemaStmts("dropSchema") : CanExec /\ Exec(stmt)

NextMandatory ==
    \/ Begin
    \/ ExecCreateAnySchema
    \/ ExecDropAnySchema
    \/ Commit
    \/ Rollback

SpecMandatory == InitSchema /\ [][NextMandatory]_vars

\* Engine.CurrentSchema: the head of the search path, the default schema
\* when the path is empty
EngineCurrentSchema(e) ==
    IF Len(e.searchPath) = 0 THEN DefaultSchema ELSE e.searchPath[1]

\* C40: in every reachable state the schemas public and information_schema
\* exist and the schema CURRENT_SCHEMA() names is a key of the schema map
C40_MandatorySchemas ==
    /\ MandatorySchemas \subseteq DOMAIN engine.schemas
    /\ EngineCurrentSchema(engine) \in DOMAIN engine.schemas

\* information_schema, which holds the relation tables, stays, and a
\* rollback brings public back when the transaction began with it
C40_InformationSchema ==
    /\ "information_schema" \in DOMAIN engine.schemas
    /\ (last.op = "rollback" /\ DefaultSchema \in DOMAIN snapshot.schemas) =>
           DefaultSchema \in DOMAIN engine.schemas

\* DROP SCHEMA public succeeded
C40_Reached ==
    /\ last.op = "dropSchema" /\ last.stmt.relation = DefaultSchema /\ last.err = NoErr
    /\ last.affected = 1

\* DROP SCHEMA information_schema was rejected
C40_ReachedInformation ==
    /\ last.op = "dropSchema" /\ last.stmt.relation = "information_schema"
    /\ last.err # NoErr

====
